---- MODULE Spec2Model ----
(***************************************************************************)
(* Duplicate file finder: the scan pipeline of core/scanner.py             *)
(* (DuplicateScanner) with the analyzers of core/analyzers.py.             *)
(*                                                                         *)
(* The main thread runs find_duplicates: up to three stages (exact, image, *)
(* video), each of which submits one task per applicable file to a         *)
(* ThreadPoolExecutor, collects the finished futures with as_completed,    *)
(* leaves the `with` block (joining the workers) and groups the recorded   *)
(* results.  stop() may be called from another thread at any moment, and   *)
(* files may disappear from the disk while the scan runs.                  *)
(***************************************************************************)
EXTENDS Integers, Sequences, FiniteSets, TLC

(***************************************************************************)
(* Bounds of the model.                                                    *)
(***************************************************************************)
\* largest number of files in the discovered file list
MaxFiles == 3
\* thread_count option handed to the pools
MaxThreads == 2
\* number of files that may disappear from the disk during one scan
MaxVanish == 1
\* largest number of files in the scans that lose files
MaxVanishFiles == 2
\* largest number of folders handed to a ScannerThread
MaxFolders == 2
\* largest number of files in the scans with a configured threshold
MaxConfigFiles == 2
\* largest number of files in the scans that report progress
MaxProgressFiles == 2
\* longest frame-hash sequence of the enumerated video signatures
MaxFrames == 3
\* seconds a slow seek-and-read of one video frame takes
MaxReadSeconds == 6
\* largest number of files of a scanner that is asked for duplicates again
MaxRerunFiles == 2
\* largest number of files of a scan with the perceptual stages only
MaxPassFiles == 3
\* largest number of files of a scan that runs under fair scheduling
MaxScheduledFiles == 2
\* most duplicate groups handed to the deletion manager
MaxGroups == 2
\* most files in one of these groups
MaxGroupSize == 3
\* most selected files that are gone from the disk before the deletion starts
MaxMissing == 1
\* most failures of an archive write or of a removal during one deletion
MaxDeleteFailures == 1

(***************************************************************************)
(* Program constants.                                                      *)
(***************************************************************************)
CHUNK_SIZE == 65536
HASH_BITS == 64
MIN_VIDEO_BYTES == 1024
DEFAULT_THRESHOLD == 90
\* VideoAnalyzer: frames sampled per video, fewest samples, fewest frames
\* of a signature
SAMPLE_FRAMES == 10
\* VideoAnalyzer: timeout_seconds, the budget of one analysis
TIMEOUT_SECONDS == 10
MIN_SAMPLES == 3
MIN_FRAMES == 2
\* the range the settings dialog offers for similarity_threshold
MIN_THRESHOLD == 50
MAX_THRESHOLD == 100

SUPPORTED_IMAGE_FORMATS == {".jpg"}
SUPPORTED_VIDEO_FORMATS == {".mp4"}

(***************************************************************************)
(* The disk the scan runs on: a fixed directory whose listing order is the *)
(* discovery order.  a.jpg and b.jpg are byte-identical; c.jpg is visually *)
(* close to a.jpg and d.jpg is close to c.jpg only; v.mp4 and w.mp4 hold   *)
(* the same frames with durations 30 s and 29 s; x.jpg cannot be opened;   *)
(* y.mp4 is shorter than the video size floor.                             *)
(***************************************************************************)
DiskListing == <<"a.jpg", "b.jpg", "c.jpg", "d.jpg", "v.mp4", "w.mp4", "x.jpg", "y.mp4">>

Paths == {DiskListing[i] : i \in 1..Len(DiskListing)}

Suffix(p) ==
    IF p \in {"a.jpg", "b.jpg", "c.jpg", "d.jpg", "x.jpg"} THEN ".jpg"
    ELSE IF p = "notes.txt" THEN ".txt" ELSE ".mp4"

Unreadable == {"x.jpg"}

\* file contents, as byte sequences
Bytes(p) ==
    CASE p = "a.jpg" -> <<1, 1>>
      [] p = "b.jpg" -> <<1, 1>>
      [] p = "c.jpg" -> <<1, 2>>
      [] p = "d.jpg" -> <<1, 3>>
      [] p = "v.mp4" -> <<2, 1>>
      [] p = "w.mp4" -> <<2, 2>>
      [] p = "x.jpg" -> <<3>>
      [] p = "y.mp4" -> <<4>>

\* size on disk in bytes (the two bytes above stand for a full media file)
FileSize(p) == IF p = "y.mp4" THEN 500 ELSE 4096

\* a 64-bit imagehash value with its first n bits set, as the set of set bits
Bits(n) == 1..n

\* a hash string: the digits of a hexadecimal rendering, with its algorithm
HashString(algo, digits) == [algo |-> algo, digits |-> digits]

\* str(imagehash): the 16 hexadecimal digits of the 64 bits
HexOfBits(h) ==
    [d \in 1..16 |->
        (IF 4 * d - 3 \in h THEN 8 ELSE 0) + (IF 4 * d - 2 \in h THEN 4 ELSE 0)
        + (IF 4 * d - 1 \in h THEN 2 ELSE 0) + (IF 4 * d \in h THEN 1 ELSE 0)]

\* the record ImageAnalyzer.analyze builds from the four hashes
ImageRecord(a, d, p, w, resolution) ==
    [ahash |-> a, dhash |-> d, phash |-> p, whash |-> w,
     resolution |-> resolution, hash |-> HashString("phash", HexOfBits(p))]

\* what the decoder and the four imagehash functions yield for each image
DecodedImage(p) ==
    CASE p \in {"a.jpg", "b.jpg"} ->
            ImageRecord(Bits(0), Bits(0), Bits(0), Bits(0), "640x480")
      [] p = "c.jpg" ->
            ImageRecord(Bits(5), Bits(5), Bits(5), Bits(5), "320x240")
      [] p = "d.jpg" ->
            ImageRecord(Bits(10), Bits(10), Bits(10), Bits(10), "320x240")

\* what the frame sampling yields for each video
DecodedVideo(p) ==
    CASE p = "v.mp4" ->
            [frame_hashes |-> <<"f1", "f2", "f3">>, duration |-> 30,
             resolution |-> "640x480", fps |-> 30, frame_count |-> 900]
      [] p = "w.mp4" ->
            [frame_hashes |-> <<"f1", "f2", "f3">>, duration |-> 29,
             resolution |-> "640x480", fps |-> 30, frame_count |-> 870]

\* Python's None, and the marker of a raised exception
None == [none |-> TRUE]

Raised == [raised |-> TRUE]

(***************************************************************************)
(* Python dicts keep insertion order: a dict is a sequence of items, and   *)
(* assigning to a key that is present keeps the key's position.            *)
(***************************************************************************)
Keys(d) == {d[i].key : i \in 1..Len(d)}

Values(d) == [i \in 1..Len(d) |-> d[i].value]

DictGet(d, k) == d[CHOOSE i \in 1..Len(d) : d[i].key = k].value

DictPut(d, k, v) ==
    IF k \in Keys(d)
    THEN [i \in 1..Len(d) |-> IF d[i].key = k THEN [key |-> k, value |-> v] ELSE d[i]]
    ELSE Append(d, [key |-> k, value |-> v])

Range(s) == {s[i] : i \in 1..Len(s)}

Min(a, b) == IF a < b THEN a ELSE b

Max(a, b) == IF a > b THEN a ELSE b

Abs(a) == IF a < 0 THEN -a ELSE a

(***************************************************************************)
(* core/analyzers.py                                                       *)
(***************************************************************************)
\* f.read(CHUNK_SIZE) at offset off: the next chunk, empty at end of file
ReadChunk(bytes, off) == SubSeq(bytes, off + 1, Min(Len(bytes), off + CHUNK_SIZE))

\* sha256.update over the chunks read until an empty one.  SHA-256 is taken
\* to be collision free: the digest stands for the byte string it was fed.
RECURSIVE Sha256Update(_, _, _)
Sha256Update(bytes, off, fed) ==
    LET chunk == ReadChunk(bytes, off)
    IN  IF chunk = <<>> THEN fed
        ELSE Sha256Update(bytes, off + Len(chunk), fed \o chunk)

HexDigest(fed) == HashString("sha256", fed)

\* FileHasher.hash_file: open() raises for a file that is gone or unreadable
hash_file(p, gone) ==
    IF p \in gone \/ p \in Unreadable THEN Raised
    ELSE HexDigest(Sha256Update(Bytes(p), 0, <<>>))

\* ImageAnalyzer.analyze: any failure inside yields None
image_analyze(p, gone) ==
    IF p \in gone \/ p \in Unreadable \/ Suffix(p) \notin SUPPORTED_IMAGE_FORMATS
    THEN None
    ELSE DecodedImage(p)

\* Hamming distance of two imagehash values (h1 - h2)
Hamming(h1, h2) == Cardinality((h1 \ h2) \cup (h2 \ h1))

\* an image compare that looks at the frequency hash alone
image_compare_phash_only(hash1, hash2, threshold) ==
    (HASH_BITS - Hamming(hash1.phash, hash2.phash)) * 100 >= HASH_BITS * threshold

\* an image compare whose test is similarity <= threshold
image_compare_reversed(hash1, hash2, threshold) ==
    LET distances == <<Hamming(hash1.ahash, hash2.ahash),
                       Hamming(hash1.dhash, hash2.dhash),
                       Hamming(hash1.phash, hash2.phash),
                       Hamming(hash1.whash, hash2.whash)>>
        total == distances[1] + distances[2] + distances[3] + distances[4]
    IN  (Len(distances) * HASH_BITS - total) * 100 <= Len(distances) * HASH_BITS * threshold

\* ImageAnalyzer.compare: (1 - (sum/4)/64) * 100 >= threshold, in integers
image_compare(hash1, hash2, threshold) ==
    LET distances == <<Hamming(hash1.ahash, hash2.ahash),
                       Hamming(hash1.dhash, hash2.dhash),
                       Hamming(hash1.phash, hash2.phash),
                       Hamming(hash1.whash, hash2.whash)>>
        total == distances[1] + distances[2] + distances[3] + distances[4]
    IN  (Len(distances) * HASH_BITS - total) * 100 >= Len(distances) * HASH_BITS * threshold

\* VideoAnalyzer.analyze: None below the size floor, for a file that is gone
\* or cannot be opened by the decoder, or with fewer than 2 decoded frames
video_analyze(p, gone) ==
    IF p \in gone \/ p \in Unreadable THEN None
    ELSE IF FileSize(p) < MIN_VIDEO_BYTES THEN None
    ELSE IF Suffix(p) \notin SUPPORTED_VIDEO_FORMATS THEN None
    ELSE IF Len(DecodedVideo(p).frame_hashes) < 2 THEN None
    ELSE DecodedVideo(p)

\* a video compare that divides by the length of the first sequence
video_compare_first_length(sig1, sig2, threshold) ==
    LET hashes1 == sig1.frame_hashes
        hashes2 == sig2.frame_hashes
        n == Len(hashes1)
        matches == Cardinality({i \in 1..Min(Len(hashes1), Len(hashes2)) :
                                    hashes1[i] = hashes2[i]})
        duration1 == sig1.duration
        duration2 == sig2.duration
        penalty == /\ duration1 > 0
                   /\ duration2 > 0
                   /\ 20 * Abs(duration1 - duration2) > Max(duration1, duration2)
    IN  IF hashes1 = <<>> \/ hashes2 = <<>> THEN FALSE
        ELSE IF penalty
             THEN matches * 100 * 4 >= threshold * n * 5
             ELSE matches * 100 >= threshold * n

\* a video compare that applies the penalty from 5% on
video_compare_penalty_at_five(sig1, sig2, threshold) ==
    LET hashes1 == sig1.frame_hashes
        hashes2 == sig2.frame_hashes
        n == Min(Len(hashes1), Len(hashes2))
        matches == Cardinality({i \in 1..n : hashes1[i] = hashes2[i]})
        duration1 == sig1.duration
        duration2 == sig2.duration
        penalty == /\ duration1 > 0
                   /\ duration2 > 0
                   /\ 20 * Abs(duration1 - duration2) >= Max(duration1, duration2)
    IN  IF hashes1 = <<>> \/ hashes2 = <<>> THEN FALSE
        ELSE IF penalty
             THEN matches * 100 * 4 >= threshold * n * 5
             ELSE matches * 100 >= threshold * n

\* video compare that reduces the score of distant durations to 0.9 of it
video_compare_penalty_nine_tenths(sig1, sig2, threshold) ==
    LET hashes1 == sig1.frame_hashes
        hashes2 == sig2.frame_hashes
        n == Min(Len(hashes1), Len(hashes2))
        matches == Cardinality({i \in 1..n : hashes1[i] = hashes2[i]})
        duration1 == sig1.duration
        duration2 == sig2.duration
        penalty == /\ duration1 > 0
                   /\ duration2 > 0
                   /\ 20 * Abs(duration1 - duration2) > Max(duration1, duration2)
    IN  IF hashes1 = <<>> \/ hashes2 = <<>> THEN FALSE
        ELSE IF penalty
             THEN matches * 100 * 9 >= threshold * n * 10
             ELSE matches * 100 >= threshold * n

\* VideoAnalyzer.compare: share of positionally equal frame hashes, times 0.8
\* when the durations differ by more than 5% of the larger
video_compare(sig1, sig2, threshold) ==
    LET hashes1 == sig1.frame_hashes
        hashes2 == sig2.frame_hashes
        n == Min(Len(hashes1), Len(hashes2))
        matches == Cardinality({i \in 1..n : hashes1[i] = hashes2[i]})
        duration1 == sig1.duration
        duration2 == sig2.duration
        penalty == /\ duration1 > 0
                   /\ duration2 > 0
                   /\ 20 * Abs(duration1 - duration2) > Max(duration1, duration2)
    IN  IF hashes1 = <<>> \/ hashes2 = <<>> THEN FALSE
        ELSE IF penalty
             THEN matches * 100 * 4 >= threshold * n * 5
             ELSE matches * 100 >= threshold * n

(***************************************************************************)
(* core/scanner.py: grouping and merging (pure functions of the maps)      *)
(***************************************************************************)
\* _create_file_info: path.stat() raises for a file that is gone
create_file_info_raises(file_path, gone) == file_path \in gone

create_file_info(file_path, file_hash) == [path |-> file_path, hash |-> file_hash]

\* HashGroups with `hash_groups[file_hash] = []` run for every item
RECURSIVE HashGroupsOverwrite(_, _)
HashGroupsOverwrite(d, n) ==
    IF n = 0 THEN <<>>
    ELSE DictPut(HashGroupsOverwrite(d, n - 1), d[n].value,
                 <<create_file_info(d[n].key, d[n].value)>>)

\* hash_groups after the first n items of file_hashes
RECURSIVE HashGroups(_, _)
HashGroups(d, n) ==
    IF n = 0 THEN <<>>
    ELSE LET hash_groups == HashGroups(d, n - 1)
             info == create_file_info(d[n].key, d[n].value)
         IN  IF d[n].value \in Keys(hash_groups)
             THEN DictPut(hash_groups, d[n].value,
                          Append(DictGet(hash_groups, d[n].value), info))
             ELSE DictPut(hash_groups, d[n].value, <<info>>)

\* find_exact_duplicates without the filter on the group size
find_exact_keep_singletons(d) == Values(HashGroups(d, Len(d)))

find_exact_duplicates(d) ==
    SelectSeq(Values(HashGroups(d, Len(d))), LAMBDA group : Len(group) > 1)

\* the comparison and the 'hash' field of the two perceptual passes
Compare(kind, v1, v2, threshold) ==
    IF kind = "image" THEN image_compare(v1, v2, threshold)
    ELSE video_compare(v1, v2, threshold)

InfoOf(kind, item) ==
    create_file_info(item.key,
                     IF kind = "image" THEN item.value.hash ELSE HashString("", <<>>))

\* an inner loop that leaves the seed's scan at its first match
RECURSIVE SimilarInnerFirstMatch(_, _, _, _, _, _, _)
SimilarInnerFirstMatch(kind, d, threshold, i, j, group, processed) ==
    IF j > Len(d) THEN [group |-> group, processed |-> processed]
    ELSE IF d[i].key = d[j].key \/ d[j].key \in processed
    THEN SimilarInnerFirstMatch(kind, d, threshold, i, j + 1, group, processed)
    ELSE IF Compare(kind, d[i].value, d[j].value, threshold)
    THEN [group |-> Append(group, InfoOf(kind, d[j])),
          processed |-> processed \cup {d[j].key}]
    ELSE SimilarInnerFirstMatch(kind, d, threshold, i, j + 1, group, processed)

\* an inner loop that does not mark the members it adds as processed
RECURSIVE SimilarInnerUnmarked(_, _, _, _, _, _, _)
SimilarInnerUnmarked(kind, d, threshold, i, j, group, processed) ==
    IF j > Len(d) THEN [group |-> group, processed |-> processed]
    ELSE IF d[i].key = d[j].key \/ d[j].key \in processed
    THEN SimilarInnerUnmarked(kind, d, threshold, i, j + 1, group, processed)
    ELSE IF Compare(kind, d[i].value, d[j].value, threshold)
    THEN SimilarInnerUnmarked(kind, d, threshold, i, j + 1,
                              Append(group, InfoOf(kind, d[j])), processed)
    ELSE SimilarInnerUnmarked(kind, d, threshold, i, j + 1, group, processed)

\* inner loop of the greedy pass for the seed d[i], from item j on
RECURSIVE SimilarInner(_, _, _, _, _, _, _)
SimilarInner(kind, d, threshold, i, j, group, processed) ==
    IF j > Len(d) THEN [group |-> group, processed |-> processed]
    ELSE IF d[i].key = d[j].key \/ d[j].key \in processed
    THEN SimilarInner(kind, d, threshold, i, j + 1, group, processed)
    ELSE IF Compare(kind, d[i].value, d[j].value, threshold)
    THEN SimilarInner(kind, d, threshold, i, j + 1,
                      Append(group, InfoOf(kind, d[j])), processed \cup {d[j].key})
    ELSE SimilarInner(kind, d, threshold, i, j + 1, group, processed)

\* outer loop of the greedy pass, from item i on
RECURSIVE SimilarOuter(_, _, _, _, _, _)
SimilarOuter(kind, d, threshold, i, similar_groups, processed) ==
    IF i > Len(d) THEN similar_groups
    ELSE IF d[i].key \in processed
    THEN SimilarOuter(kind, d, threshold, i + 1, similar_groups, processed)
    ELSE LET r == SimilarInner(kind, d, threshold, i, 1, <<InfoOf(kind, d[i])>>, processed)
         IN  IF Len(r.group) > 1
             THEN SimilarOuter(kind, d, threshold, i + 1,
                               Append(similar_groups, r.group),
                               r.processed \cup {d[i].key})
             ELSE SimilarOuter(kind, d, threshold, i + 1, similar_groups, r.processed)

find_similar_images(d, threshold) == SimilarOuter("image", d, threshold, 1, <<>>, {})

find_similar_videos(d, threshold) == SimilarOuter("video", d, threshold, 1, <<>>, {})

GroupPaths(group) == {group[i].path : i \in 1..Len(group)}

\* _merge_duplicate_groups from group n on
RECURSIVE MergeFrom(_, _, _, _)
MergeFrom(groups, n, seen_files, unique_groups) ==
    IF n > Len(groups) THEN unique_groups
    ELSE LET file_paths == GroupPaths(groups[n])
         IN  IF file_paths \cap seen_files = {}
             THEN MergeFrom(groups, n + 1, seen_files \cup file_paths,
                            Append(unique_groups, groups[n]))
             ELSE MergeFrom(groups, n + 1, seen_files, unique_groups)

\* merge that keeps of an overlapping group the members not yet seen
RECURSIVE MergeTrimmingFrom(_, _, _, _)
MergeTrimmingFrom(groups, n, seen_files, unique_groups) ==
    IF n > Len(groups) THEN unique_groups
    ELSE LET rest == SelectSeq(groups[n], LAMBDA item : item.path \notin seen_files)
         IN  IF rest # <<>>
             THEN MergeTrimmingFrom(groups, n + 1, seen_files \cup GroupPaths(rest),
                                    Append(unique_groups, rest))
             ELSE MergeTrimmingFrom(groups, n + 1, seen_files, unique_groups)

merge_trimming(groups) ==
    IF groups = <<>> THEN <<>> ELSE MergeTrimmingFrom(groups, 1, {}, <<>>)

\* merge without the overlap test
merge_keep_all(groups) == groups

\* merge that walks the groups from the last to the first
merge_backwards(groups) ==
    IF groups = <<>> THEN <<>>
    ELSE MergeFrom([n \in 1..Len(groups) |-> groups[Len(groups) + 1 - n]], 1, {}, <<>>)

merge_duplicate_groups(groups) ==
    IF groups = <<>> THEN <<>> ELSE MergeFrom(groups, 1, {}, <<>>)

(***************************************************************************)
(* State of one DuplicateScanner and of the find_duplicates call on it.    *)
(***************************************************************************)
VARIABLES
    files,              \* self.files, in discovery order
    options,            \* self.options
    stop_flag,          \* self._stop_flag
    file_hashes,        \* self.file_hashes
    perceptual_hashes,  \* self.perceptual_hashes
    video_signatures,   \* self.video_signatures
    duplicate_groups,   \* local list of find_duplicates
    task,               \* per stage, the state of the future of each file position
    pc,                 \* position of the thread that runs find_duplicates
    result,             \* the list find_duplicates returned
    vanished,           \* files removed from the disk since discovery
    progress_callback,  \* whether self.progress_callback is set
    reports,            \* the calls of the progress callback, in order
    thread,             \* the ScannerThread that drives the scanner, if any
    comparison,         \* a call of ImageAnalyzer.compare / VideoAnalyzer.compare
    analysis,           \* a call of VideoAnalyzer.analyze
    deletion            \* a call of DeletionManager.delete_duplicates

vars == <<files, options, stop_flag, file_hashes, perceptual_hashes, video_signatures,
          duplicate_groups, task, pc, result, vanished, progress_callback, reports,
          thread, comparison, analysis, deletion>>

\* what lies outside the scanner object
outside == <<thread, comparison, analysis, deletion>>

\* no ScannerThread, no compare call, no analyze call, no deletion under way
Idle == [at |-> "idle"]

Stages == {"exact", "image", "video"}

At(s, where) == [stage |-> s, at |-> where]

\* the file lists a scan of the directory can have produced
RECURSIVE Listing(_, _)
Listing(present, n) ==
    IF n = 0 THEN <<>>
    ELSE IF DiskListing[n] \in present
         THEN Append(Listing(present, n - 1), DiskListing[n])
         ELSE Listing(present, n - 1)

ScannedFiles(present) == Listing(present, Len(DiskListing))

Positions == 1..Len(files)

StageEnabled(s) ==
    CASE s = "exact" -> options.exact_match
      [] s = "image" -> options.similar_images
      [] s = "video" -> options.similar_videos

\* the files a stage submits: all of them, the images, the videos
Applicable(s, p) ==
    CASE s = "exact" -> TRUE
      [] s = "image" -> Suffix(p) \in SUPPORTED_IMAGE_FORMATS
      [] s = "video" -> Suffix(p) \in SUPPORTED_VIDEO_FORMATS

\* _hash_file, _analyze_image, _analyze_video: every exception becomes None
Analyze(s, p, gone) ==
    CASE s = "exact" -> IF hash_file(p, gone) = Raised THEN None ELSE hash_file(p, gone)
      [] s = "image" -> image_analyze(p, gone)
      [] s = "video" -> video_analyze(p, gone)

StageMap(s) ==
    CASE s = "exact" -> file_hashes
      [] s = "image" -> perceptual_hashes
      [] s = "video" -> video_signatures

\* where find_duplicates goes after the stage s
AfterStage(s) ==
    CASE s = "exact" -> At("image", "enter")
      [] s = "image" -> At("video", "enter")
      [] s = "video" -> At("none", "merge")

TypeOK ==
    /\ files \in Seq(Paths)
    /\ stop_flag \in BOOLEAN
    /\ vanished \subseteq Paths
    /\ \A s \in Stages : \A i \in Positions :
          task[s][i] \in {"none", "pending", "running", "ok", "failed", "yielded", "cancelled"}

\* a scanner whose scan_directory calls found at most n files, before
\* find_duplicates is called
InitWith(n) ==
    /\ \E present \in SUBSET Paths :
          /\ Cardinality(present) <= n
          /\ files = ScannedFiles(present)
    /\ \E em \in BOOLEAN, si \in BOOLEAN, sv \in BOOLEAN :
          options = [exact_match |-> em, similar_images |-> si, similar_videos |-> sv,
                     similarity_threshold |-> DEFAULT_THRESHOLD,
                     thread_count |-> MaxThreads]
    /\ stop_flag = FALSE
    /\ file_hashes = <<>>
    /\ perceptual_hashes = <<>>
    /\ video_signatures = <<>>
    /\ duplicate_groups = <<>>
    /\ task = [s \in Stages |-> [i \in Positions |-> "none"]]
    /\ pc = At("none", "new")
    /\ result = <<>>
    /\ vanished = {}
    /\ progress_callback = FALSE
    /\ reports = <<>>
    /\ thread = Idle
    /\ comparison = Idle
    /\ analysis = Idle
    /\ deletion = Idle

Init == InitWith(MaxFiles)

\* find_duplicates, lines 55-60: an empty file list returns [] at once
find_duplicates_call ==
    /\ pc = At("none", "new")
    /\ IF files = <<>>
       THEN /\ result' = <<>>
            /\ pc' = At("none", "returned")
       ELSE /\ pc' = At("exact", "enter")
            /\ UNCHANGED result
    /\ UNCHANGED <<files, options, stop_flag, file_hashes, perceptual_hashes,
                   video_signatures, duplicate_groups, task, vanished>>
    /\ UNCHANGED <<progress_callback, reports, outside>>

\* the option test of a stage and, when it is on, executor.submit for every
\* applicable file; with nothing submitted the as_completed loop ends at once
stage_submit(s) ==
    /\ pc = At(s, "enter")
    /\ IF StageEnabled(s)
       THEN /\ task' = [task EXCEPT ![s] =
                          [i \in Positions |->
                              IF Applicable(s, files[i]) THEN "pending" ELSE "none"]]
            /\ pc' = IF \E i \in Positions : Applicable(s, files[i])
                     THEN At(s, "loop") ELSE At(s, "exit")
       ELSE /\ pc' = AfterStage(s)
            /\ UNCHANGED task
    /\ UNCHANGED <<files, options, stop_flag, file_hashes, perceptual_hashes,
                   video_signatures, duplicate_groups, result, vanished>>
    /\ UNCHANGED <<progress_callback, reports, outside>>

Running(s) == {i \in Positions : task[s][i] = "running"}

Pending(s) == {i \in Positions : task[s][i] = "pending"}

\* a pool worker takes the oldest queued work item
worker_start(s, i) ==
    /\ i \in Pending(s)
    /\ \A j \in Pending(s) : i <= j
    /\ Cardinality(Running(s)) < options.thread_count
    /\ task' = [task EXCEPT ![s][i] = "running"]
    /\ UNCHANGED <<files, options, stop_flag, file_hashes, perceptual_hashes,
                   video_signatures, duplicate_groups, pc, result, vanished>>
    /\ UNCHANGED <<progress_callback, reports, outside>>

\* the worker runs _hash_file / _analyze_image / _analyze_video to its end
worker_run(s, i) ==
    /\ i \in Running(s)
    /\ task' = [task EXCEPT ![s][i] =
                   IF Analyze(s, files[i], vanished) = None THEN "failed" ELSE "ok"]
    /\ UNCHANGED <<files, options, stop_flag, file_hashes, perceptual_hashes,
                   video_signatures, duplicate_groups, pc, result, vanished>>
    /\ UNCHANGED <<progress_callback, reports, outside>>

\* the value future.result() returns for a finished future
FutureResult(s, i) == IF task[s][i] = "ok" THEN Analyze(s, files[i], {}) ELSE None

\* the stage's map with the result of future i recorded
Recorded(s, i) ==
    IF FutureResult(s, i) # None
    THEN DictPut(StageMap(s), files[i], FutureResult(s, i))
    ELSE StageMap(s)

\* image_files, video_files: the files of the list with a suffix of a set
FilesWithSuffix(formats) == SelectSeq(files, LAMBDA f : Suffix(f) \in formats)

\* the total a stage reports: total_files, len(image_files), len(video_files)
ReportTotal(s) ==
    CASE s = "exact" -> Len(files)
      [] s = "image" -> Len(FilesWithSuffix(SUPPORTED_IMAGE_FORMATS))
      [] s = "video" -> Len(FilesWithSuffix(SUPPORTED_VIDEO_FORMATS))

\* the band of the progress bar a stage reports in: its start and its width
StageBase(s) == CASE s = "exact" -> 0 [] s = "image" -> 33 [] s = "video" -> 66

StageWidth(s) == CASE s = "exact" -> 33 [] s = "image" -> 33 [] s = "video" -> 34

\* a report whose total is total_files in every stage
report_of_all_files(s, i) ==
    LET total == Len(files)
        processed == Cardinality({j \in Positions : task[s][j] = "yielded"}) + 1
    IN  [stage |-> s,
         percent |-> StageBase(s) + (processed * StageWidth(s)) \div total,
         file |-> files[i], processed |-> processed, total |-> total]

\* a report that counts by the position of the file in self.files
report_by_position(s, i) ==
    LET total == ReportTotal(s)
        processed == Cardinality({j \in 1..i : Applicable(s, files[j])})
    IN  [stage |-> s,
         percent |-> StageBase(s) + (processed * StageWidth(s)) \div total,
         file |-> files[i], processed |-> processed, total |-> total]

\* progress_callback(progress, file_path, i + 1, total) for the future of
\* file i, the (i + 1)-th that as_completed yields
Report(s, i) ==
    LET total == ReportTotal(s)
        processed == Cardinality({j \in Positions : task[s][j] = "yielded"}) + 1
    IN  [stage |-> s,
         percent |-> StageBase(s) + (processed * StageWidth(s)) \div total,
         file |-> files[i], processed |-> processed, total |-> total]

\* `if self.progress_callback:` after the result of future i is recorded
Reported(s, i) == IF progress_callback THEN Append(reports, Report(s, i)) ELSE reports

\* collect that raises on a stop request instead of leaving the loop
collect_raise_on_stop(s, i) ==
    /\ pc = At(s, "loop")
    /\ task[s][i] \in {"ok", "failed"}
    /\ IF stop_flag
       THEN /\ pc' = At("none", "raised")
            /\ UNCHANGED <<task, file_hashes, perceptual_hashes, video_signatures, reports>>
       ELSE /\ file_hashes' = IF s = "exact" THEN Recorded(s, i) ELSE file_hashes
            /\ perceptual_hashes' = IF s = "image" THEN Recorded(s, i) ELSE perceptual_hashes
            /\ video_signatures' = IF s = "video" THEN Recorded(s, i) ELSE video_signatures
            /\ task' = [task EXCEPT ![s][i] = "yielded"]
            /\ reports' = Reported(s, i)
            /\ pc' = IF \A j \in Positions \ {i} : task[s][j] \in {"none", "yielded"}
                     THEN At(s, "exit") ELSE At(s, "loop")
    /\ UNCHANGED <<files, options, stop_flag, duplicate_groups, result, vanished>>
    /\ UNCHANGED <<progress_callback, outside>>

\* collect in which the failure of one analysis is raised out of the loop
collect_propagates(s, i) ==
    /\ pc = At(s, "loop")
    /\ task[s][i] \in {"ok", "failed"}
    /\ IF stop_flag
       THEN /\ task' = [task EXCEPT ![s] =
                          [j \in Positions |->
                              IF task[s][j] = "pending" THEN "cancelled" ELSE task[s][j]]]
            /\ pc' = At(s, "exit")
            /\ UNCHANGED <<file_hashes, perceptual_hashes, video_signatures, reports>>
       ELSE IF task[s][i] = "failed"
       THEN /\ pc' = At("none", "raised")
            /\ UNCHANGED <<task, file_hashes, perceptual_hashes, video_signatures, reports>>
       ELSE /\ file_hashes' = IF s = "exact" THEN Recorded(s, i) ELSE file_hashes
            /\ perceptual_hashes' = IF s = "image" THEN Recorded(s, i) ELSE perceptual_hashes
            /\ video_signatures' = IF s = "video" THEN Recorded(s, i) ELSE video_signatures
            /\ task' = [task EXCEPT ![s][i] = "yielded"]
            /\ reports' = Reported(s, i)
            /\ pc' = IF \A j \in Positions \ {i} : task[s][j] \in {"none", "yielded"}
                     THEN At(s, "exit") ELSE At(s, "loop")
    /\ UNCHANGED <<files, options, stop_flag, duplicate_groups, result, vanished>>
    /\ UNCHANGED <<progress_callback, outside>>

\* one iteration of `for i, future in enumerate(as_completed(futures))`
collect(s, i) ==
    /\ pc = At(s, "loop")
    /\ task[s][i] \in {"ok", "failed"}
    /\ IF stop_flag
       THEN \* executor.shutdown(wait=False, cancel_futures=True); break
            /\ task' = [task EXCEPT ![s] =
                          [j \in Positions |->
                              IF task[s][j] = "pending" THEN "cancelled" ELSE task[s][j]]]
            /\ pc' = At(s, "exit")
            /\ UNCHANGED <<file_hashes, perceptual_hashes, video_signatures, reports>>
       ELSE /\ file_hashes' = IF s = "exact" THEN Recorded(s, i) ELSE file_hashes
            /\ perceptual_hashes' = IF s = "image" THEN Recorded(s, i) ELSE perceptual_hashes
            /\ video_signatures' = IF s = "video" THEN Recorded(s, i) ELSE video_signatures
            /\ task' = [task EXCEPT ![s][i] = "yielded"]
            /\ reports' = Reported(s, i)
            /\ pc' = IF \A j \in Positions \ {i} : task[s][j] \in {"none", "yielded"}
                     THEN At(s, "exit") ELSE At(s, "loop")
    /\ UNCHANGED <<files, options, stop_flag, duplicate_groups, result, vanished>>
    /\ UNCHANGED <<progress_callback, outside>>

\* the groups the pass of stage s builds from its map
StageGroups(s) ==
    CASE s = "exact" -> find_exact_duplicates(file_hashes)
      [] s = "image" -> find_similar_images(perceptual_hashes, options.similarity_threshold)
      [] s = "video" -> find_similar_videos(video_signatures, options.similarity_threshold)

\* stage_exit on a pool that is shut down without waiting for its workers
stage_exit_no_join(s) ==
    /\ pc = At(s, "exit")
    /\ IF \E k \in Keys(StageMap(s)) : create_file_info_raises(k, vanished)
       THEN /\ pc' = At("none", "raised")
            /\ UNCHANGED duplicate_groups
       ELSE /\ duplicate_groups' = duplicate_groups \o StageGroups(s)
            /\ pc' = AfterStage(s)
    /\ UNCHANGED <<files, options, stop_flag, file_hashes, perceptual_hashes,
                   video_signatures, task, result, vanished>>
    /\ UNCHANGED <<progress_callback, reports, outside>>

\* leaving the `with` block joins the workers (shutdown(wait=True)) and the
\* function returns, which drops its futures; then the pass of the stage runs
\* and its groups are appended.  Every key of the map
\* goes through _create_file_info, which raises when the file is gone.
stage_exit(s) ==
    /\ pc = At(s, "exit")
    /\ Running(s) = {}
    /\ IF \E k \in Keys(StageMap(s)) : create_file_info_raises(k, vanished)
       THEN /\ pc' = At("none", "raised")
            /\ UNCHANGED duplicate_groups
       ELSE /\ duplicate_groups' = duplicate_groups \o StageGroups(s)
            /\ pc' = AfterStage(s)
    /\ task' = [task EXCEPT ![s] = [i \in Positions |-> "none"]]
    /\ UNCHANGED <<files, options, stop_flag, file_hashes, perceptual_hashes,
                   video_signatures, result, vanished>>
    /\ UNCHANGED <<progress_callback, reports, outside>>

\* return self._merge_duplicate_groups(duplicate_groups)
find_duplicates_return ==
    /\ pc = At("none", "merge")
    /\ result' = merge_duplicate_groups(duplicate_groups)
    /\ pc' = At("none", "returned")
    /\ UNCHANGED <<files, options, stop_flag, file_hashes, perceptual_hashes,
                   video_signatures, duplicate_groups, task, vanished>>
    /\ UNCHANGED <<progress_callback, reports, outside>>

\* a stop() that also drops what the stages have recorded
stop_rolls_back ==
    /\ stop_flag' = TRUE
    /\ file_hashes' = <<>>
    /\ perceptual_hashes' = <<>>
    /\ video_signatures' = <<>>
    /\ UNCHANGED <<files, options, duplicate_groups, task, pc, result, vanished>>
    /\ UNCHANGED <<progress_callback, reports, outside>>

\* stop(), from any thread at any time
stop ==
    /\ stop_flag' = TRUE
    /\ UNCHANGED <<files, options, file_hashes, perceptual_hashes, video_signatures,
                   duplicate_groups, task, pc, result, vanished>>
    /\ UNCHANGED <<progress_callback, reports, outside>>

\* the environment removes a discovered file from the disk
vanish(p) ==
    /\ pc.at \notin {"returned", "raised"}
    /\ p \in Range(files) \ vanished
    /\ Cardinality(vanished) < MaxVanish
    /\ vanished' = vanished \cup {p}
    /\ UNCHANGED <<files, options, stop_flag, file_hashes, perceptual_hashes,
                   video_signatures, duplicate_groups, task, pc, result>>
    /\ UNCHANGED <<progress_callback, reports, outside>>

Next ==
    \/ find_duplicates_call
    \/ \E s \in Stages : stage_submit(s)
    \/ \E s \in Stages : \E i \in Positions : worker_start(s, i)
    \/ \E s \in Stages : \E i \in Positions : worker_run(s, i)
    \/ \E s \in Stages : \E i \in Positions : collect(s, i)
    \/ \E s \in Stages : stage_exit(s)
    \/ find_duplicates_return
    \/ stop

Spec == Init /\ [][Next]_vars

\* the same scan on a disk that loses files while the scan runs
NextVanish ==
    \/ Next
    \/ \E p \in Paths : vanish(p)

InitVanish == InitWith(MaxVanishFiles)

SpecVanish == InitVanish /\ [][NextVanish]_vars

(***************************************************************************)
(* gui/main_window.py: ScannerThread, which builds the scanner, scans the  *)
(* folders in order, runs find_duplicates and emits finished or error.     *)
(* ScannerThread.stop is called from the GUI thread while run is under way.*)
(***************************************************************************)
\* the folders the user can add: two on the disk, one that is not there
Folders == {"photos", "clips", "missing"}

ExistingFolders == {"photos", "clips"}

\* os.walk of a folder: the file names of its single root, in listing order
WalkListing(folder) ==
    CASE folder = "photos" -> <<"a.jpg", "notes.txt", "b.jpg">>
      [] folder = "clips" -> <<"v.mp4">>
      [] OTHER -> <<>>

\* the folder lists of at most n folders start_scan hands over (never empty)
FolderLists(n) == UNION {[1..k -> Folders] : k \in 1..n}

\* scan_directory without its existence test
scan_directory_never_raises(directory) == FALSE

\* scan_directory, lines 36-37: ValueError for a directory that is not there
scan_directory_raises(directory) == directory \notin ExistingFolders

\* the futures of a scanner whose file list is fs: none submitted yet
NoTasks(fs) == [s \in Stages |-> [i \in 1..Len(fs) |-> "none"]]

\* a ScannerThread that was started on at most n folders with the default
\* options, before run constructs the scanner
InitThreadWith(n) ==
    /\ \E fl \in FolderLists(n) :
          thread = [at |-> "start", folders |-> fl, folder |-> 1, entry |-> 1,
                    scanner |-> FALSE, stop_requested |-> FALSE, testing |-> FALSE,
                    stopping |-> FALSE,
                    finished |-> <<>>, error |-> <<>>]
    /\ files = <<>>
    /\ options = [exact_match |-> TRUE, similar_images |-> FALSE, similar_videos |-> FALSE,
                  similarity_threshold |-> DEFAULT_THRESHOLD, thread_count |-> MaxThreads]
    /\ stop_flag = FALSE
    /\ file_hashes = <<>>
    /\ perceptual_hashes = <<>>
    /\ video_signatures = <<>>
    /\ duplicate_groups = <<>>
    /\ task = NoTasks(<<>>)
    /\ pc = At("none", "idle")
    /\ result = <<>>
    /\ vanished = {}
    /\ progress_callback = FALSE
    /\ reports = <<>>
    /\ comparison = Idle
    /\ analysis = Idle
    /\ deletion = Idle

InitThread == InitThreadWith(MaxFolders)

scanner_fields == <<files, options, stop_flag, file_hashes, perceptual_hashes,
                    video_signatures, duplicate_groups, task, pc, result, vanished,
                    progress_callback, reports>>

\* run, lines 42-43: DuplicateScanner(self.options) and the callback
thread_construct ==
    /\ thread.at = "start"
    /\ thread' = [thread EXCEPT !.at = "loop", !.scanner = TRUE]
    /\ progress_callback' = TRUE
    /\ UNCHANGED <<files, options, stop_flag, file_hashes, perceptual_hashes,
                   video_signatures, duplicate_groups, task, pc, result, vanished,
                   reports, comparison, analysis, deletion>>

\* run, lines 45-48: the head of the folder loop and the call of
\* scan_directory, up to its existence test
thread_next_folder ==
    /\ thread.at = "loop"
    /\ IF thread.folder > Len(thread.folders) \/ thread.stop_requested
       THEN thread' = [thread EXCEPT !.at = "check"]
       ELSE IF scan_directory_raises(thread.folders[thread.folder])
       THEN thread' = [thread EXCEPT !.at = "except"]
       ELSE thread' = [thread EXCEPT !.at = "walk", !.entry = 1]
    /\ UNCHANGED <<scanner_fields, comparison, analysis, deletion>>

\* a walk that gives up the files it collected when it sees the stop flag
thread_walk_discards_on_stop ==
    /\ thread.at = "walk"
    /\ LET listing == WalkListing(thread.folders[thread.folder])
           file == listing[thread.entry]
       IN  IF stop_flag \/ thread.entry > Len(listing)
           THEN /\ thread' = [thread EXCEPT !.at = "loop", !.folder = @ + 1]
                /\ files' = IF stop_flag THEN <<>> ELSE files
                /\ task' = NoTasks(files')
           ELSE /\ thread' = [thread EXCEPT !.entry = @ + 1]
                /\ files' = IF Suffix(file) \in SUPPORTED_IMAGE_FORMATS
                                                \cup SUPPORTED_VIDEO_FORMATS
                            THEN Append(files, file) ELSE files
                /\ task' = NoTasks(files')
    /\ UNCHANGED <<options, stop_flag, file_hashes, perceptual_hashes, video_signatures,
                   duplicate_groups, pc, result, vanished, progress_callback, reports,
                   comparison, analysis, deletion>>

\* scan_directory, lines 41-51: one turn of the walk; the stop flag ends it
thread_walk ==
    /\ thread.at = "walk"
    /\ LET listing == WalkListing(thread.folders[thread.folder])
           file == listing[thread.entry]
       IN  IF stop_flag \/ thread.entry > Len(listing)
           THEN /\ thread' = [thread EXCEPT !.at = "loop", !.folder = @ + 1]
                /\ UNCHANGED <<files, task>>
           ELSE /\ thread' = [thread EXCEPT !.entry = @ + 1]
                /\ files' = IF Suffix(file) \in SUPPORTED_IMAGE_FORMATS
                                                \cup SUPPORTED_VIDEO_FORMATS
                            THEN Append(files, file) ELSE files
                /\ task' = NoTasks(files')
    /\ UNCHANGED <<options, stop_flag, file_hashes, perceptual_hashes, video_signatures,
                   duplicate_groups, pc, result, vanished, progress_callback, reports,
                   comparison, analysis, deletion>>

\* a run that calls find_duplicates without looking at the stop request
thread_find_duplicates_unconditional ==
    /\ thread.at = "check"
    /\ thread' = [thread EXCEPT !.at = "called"]
    /\ pc' = At("none", "new")
    /\ UNCHANGED <<files, options, stop_flag, file_hashes, perceptual_hashes,
                   video_signatures, duplicate_groups, task, result, vanished,
                   progress_callback, reports, comparison, analysis, deletion>>

\* run, lines 50-51: find_duplicates is called unless a stop was requested
thread_find_duplicates ==
    /\ thread.at = "check"
    /\ IF thread.stop_requested
       THEN /\ thread' = [thread EXCEPT !.at = "done"]
            /\ UNCHANGED pc
       ELSE /\ thread' = [thread EXCEPT !.at = "called"]
            /\ pc' = At("none", "new")
    /\ UNCHANGED <<files, options, stop_flag, file_hashes, perceptual_hashes,
                   video_signatures, duplicate_groups, task, result, vanished,
                   progress_callback, reports, comparison, analysis, deletion>>

\* run, line 52: self.finished.emit(duplicates)
thread_finished ==
    /\ thread.at = "called"
    /\ pc = At("none", "returned")
    /\ thread' = [thread EXCEPT !.at = "done", !.finished = Append(@, result)]
    /\ UNCHANGED <<scanner_fields, comparison, analysis, deletion>>

\* run, lines 53-54: except Exception as e: self.error.emit(str(e))
thread_error ==
    /\ \/ thread.at = "except"
       \/ thread.at = "called" /\ pc = At("none", "raised")
    /\ thread' = [thread EXCEPT !.at = "done",
                                !.error = Append(@, IF thread.at = "except"
                                                    THEN "Directory does not exist"
                                                    ELSE "No such file")]
    /\ UNCHANGED <<scanner_fields, comparison, analysis, deletion>>

\* ScannerThread.stop, line 57: self._stop_requested = True
thread_stop ==
    /\ thread.at # "idle"
    /\ ~thread.testing
    /\ ~thread.stopping
    /\ thread' = [thread EXCEPT !.stop_requested = TRUE, !.testing = TRUE]
    /\ UNCHANGED <<scanner_fields, comparison, analysis, deletion>>

\* ScannerThread.stop, line 58: if self.scanner
thread_stop_test ==
    /\ thread.at # "idle"
    /\ thread.testing
    /\ thread' = [thread EXCEPT !.testing = FALSE, !.stopping = thread.scanner]
    /\ UNCHANGED <<scanner_fields, comparison, analysis, deletion>>

\* ScannerThread.stop, line 59: self.scanner.stop()
thread_stop_scanner ==
    /\ thread.at # "idle"
    /\ thread.stopping
    /\ thread' = [thread EXCEPT !.stopping = FALSE]
    /\ stop_flag' = TRUE
    /\ UNCHANGED <<files, options, file_hashes, perceptual_hashes, video_signatures,
                   duplicate_groups, task, pc, result, vanished, progress_callback,
                   reports, comparison, analysis, deletion>>

NextThread ==
    \/ thread_construct
    \/ thread_next_folder
    \/ thread_walk
    \/ thread_find_duplicates
    \/ thread_finished
    \/ thread_error
    \/ thread_stop
    \/ thread_stop_test
    \/ thread_stop_scanner
    \/ find_duplicates_call
    \/ \E s \in Stages : stage_submit(s)
    \/ \E s \in Stages : \E i \in Positions : worker_start(s, i)
    \/ \E s \in Stages : \E i \in Positions : worker_run(s, i)
    \/ \E s \in Stages : \E i \in Positions : collect(s, i)
    \/ \E s \in Stages : stage_exit(s)
    \/ find_duplicates_return

SpecThread == InitThread /\ [][NextThread]_vars

(***************************************************************************)
(* The scanner under a configured threshold: utils/config.py merges the    *)
(* JSON file of the user over the defaults and start_scan hands the value  *)
(* to DuplicateScanner as it is.                                           *)
(***************************************************************************)
\* similarity_threshold values a config.json can hold
ConfigThresholds == {0, 49, 50, 90, 100, 101}

InitConfigWith(n) ==
    /\ \E present \in SUBSET Paths :
          /\ Cardinality(present) <= n
          /\ files = ScannedFiles(present)
    /\ \E t \in ConfigThresholds :
          options = [exact_match |-> FALSE, similar_images |-> TRUE, similar_videos |-> TRUE,
                     similarity_threshold |-> t, thread_count |-> MaxThreads]
    /\ stop_flag = FALSE
    /\ file_hashes = <<>>
    /\ perceptual_hashes = <<>>
    /\ video_signatures = <<>>
    /\ duplicate_groups = <<>>
    /\ task = NoTasks(files)
    /\ pc = At("none", "new")
    /\ result = <<>>
    /\ vanished = {}
    /\ progress_callback = FALSE
    /\ reports = <<>>
    /\ thread = Idle
    /\ comparison = Idle
    /\ analysis = Idle
    /\ deletion = Idle

InitConfig == InitConfigWith(MaxConfigFiles)

SpecConfig == InitConfig /\ [][Next]_vars

(***************************************************************************)
(* The scanner with a progress callback set.                               *)
(***************************************************************************)
InitProgressWith(n) ==
    /\ \E present \in SUBSET Paths :
          /\ Cardinality(present) <= n
          /\ files = ScannedFiles(present)
    /\ \E em \in BOOLEAN, si \in BOOLEAN, sv \in BOOLEAN :
          options = [exact_match |-> em, similar_images |-> si, similar_videos |-> sv,
                     similarity_threshold |-> DEFAULT_THRESHOLD,
                     thread_count |-> MaxThreads]
    /\ stop_flag = FALSE
    /\ file_hashes = <<>>
    /\ perceptual_hashes = <<>>
    /\ video_signatures = <<>>
    /\ duplicate_groups = <<>>
    /\ task = NoTasks(files)
    /\ pc = At("none", "new")
    /\ result = <<>>
    /\ vanished = {}
    /\ progress_callback = TRUE
    /\ reports = <<>>
    /\ thread = Idle
    /\ comparison = Idle
    /\ analysis = Idle
    /\ deletion = Idle

InitProgress == InitProgressWith(MaxProgressFiles)

SpecProgress == InitProgress /\ [][Next]_vars

(***************************************************************************)
(* The two compare functions on their own: one call of                     *)
(* ImageAnalyzer.compare or VideoAnalyzer.compare on enumerated arguments. *)
(***************************************************************************)
\* 64-bit hash values: no bit, a few bits, many bits, every bit set
SampleHashes == {Bits(0), Bits(6), Bits(26), Bits(HASH_BITS)}

\* image fingerprints as ImageAnalyzer.analyze builds them
SampleFingerprints ==
    {ImageRecord(a, d, a, d, r) :
        a \in SampleHashes, d \in SampleHashes, r \in {"640x480", "320x240"}}

\* a sequence of n frame hashes that differs from the all-"f1" sequence at
\* position k (at none for k = 0)
FramesButOne(n, k) == [i \in 1..n |-> IF i = k THEN "f2" ELSE "f1"]

\* frame-hash sequences: every one of at most n hashes over two values, and
\* two of the full sample count that agree at nine positions of ten
SampleFrames(n) ==
    UNION {[1..k -> {"f1", "f2"}] : k \in 0..n} \cup {FramesButOne(10, 0), FramesButOne(10, 4)}

\* durations in seconds: unknown, and pairs 3.3%, exactly 5% and far apart
SampleDurations == {0, 19, 20, 29, 30}

SampleSignatures(n) ==
    {[frame_hashes |-> f, duration |-> d] : f \in SampleFrames(n), d \in SampleDurations}

SampleThresholds == {0, 50, 80, 90, 100}

InitCompareWith(n) ==
    /\ \/ \E x \in SampleFingerprints, y \in SampleFingerprints, t \in SampleThresholds :
             comparison = [at |-> "call", kind |-> "image", x |-> x, y |-> y, threshold |-> t]
       \/ \E x \in SampleSignatures(n), y \in SampleSignatures(n), t \in SampleThresholds :
             comparison = [at |-> "call", kind |-> "video", x |-> x, y |-> y, threshold |-> t]
    /\ files = <<>>
    /\ options = [exact_match |-> TRUE, similar_images |-> TRUE, similar_videos |-> TRUE,
                  similarity_threshold |-> DEFAULT_THRESHOLD, thread_count |-> MaxThreads]
    /\ stop_flag = FALSE
    /\ file_hashes = <<>>
    /\ perceptual_hashes = <<>>
    /\ video_signatures = <<>>
    /\ duplicate_groups = <<>>
    /\ task = NoTasks(<<>>)
    /\ pc = At("none", "idle")
    /\ result = <<>>
    /\ vanished = {}
    /\ progress_callback = FALSE
    /\ reports = <<>>
    /\ thread = Idle
    /\ analysis = Idle
    /\ deletion = Idle

InitCompare == InitCompareWith(MaxFrames)

\* self.image_analyzer.compare(hash1, hash2, threshold)
image_compare_call ==
    /\ comparison.at = "call"
    /\ comparison.kind = "image"
    /\ comparison' = [at |-> "done", kind |-> "image", x |-> comparison.x,
                      y |-> comparison.y, threshold |-> comparison.threshold,
                      similar |-> image_compare(comparison.x, comparison.y,
                                                comparison.threshold)]
    /\ UNCHANGED <<scanner_fields, thread, analysis, deletion>>

\* self.video_analyzer.compare(sig1, sig2, threshold)
video_compare_call ==
    /\ comparison.at = "call"
    /\ comparison.kind = "video"
    /\ comparison' = [at |-> "done", kind |-> "video", x |-> comparison.x,
                      y |-> comparison.y, threshold |-> comparison.threshold,
                      similar |-> video_compare(comparison.x, comparison.y,
                                                comparison.threshold)]
    /\ UNCHANGED <<scanner_fields, thread, analysis, deletion>>

NextCompare ==
    \/ image_compare_call
    \/ video_compare_call

SpecCompare == InitCompare /\ [][NextCompare]_vars

(***************************************************************************)
(* VideoAnalyzer.analyze on its own: one call on a file whose size, whose  *)
(* properties as the decoder reports them and whose frame reads are drawn  *)
(* from small sets.                                                        *)
(***************************************************************************)
SampleSizes == {500, 1023, 1024, 4096}

SampleFps == {0, 30}

SampleFrameCounts == {-1, 0, 1, 3, 40, 100}

SampleWidths == {0, 640}

SampleHeights == {0, 480}

\* sample_count = min(self.sample_frames, max(3, frame_count // 10))
sample_count(frame_count) == Min(SAMPLE_FRAMES, Max(MIN_SAMPLES, frame_count \div 10))

\* frame_indices[k - 1] of np.linspace(0, max(0, frame_count - 1), n, dtype=int)
frame_index(frame_count, k) ==
    ((k - 1) * Max(0, frame_count - 1)) \div (sample_count(frame_count) - 1)

\* hashlib.md5(resized.tobytes()).hexdigest() of the frame at index idx
frame_md5(idx) == HashString("md5", <<idx>>)

InitVideo ==
    /\ \E size \in SampleSizes, opened \in BOOLEAN, fps \in SampleFps,
          frame_count \in SampleFrameCounts, width \in SampleWidths,
          height \in SampleHeights :
          analysis = [at |-> "size", file_size |-> size, opened |-> opened, fps |-> fps,
                      frame_count |-> frame_count, width |-> width, height |-> height,
                      k |-> 1, frame_hashes |-> <<>>, successful_reads |-> 0,
                      reads |-> 0, elapsed |-> 0, decoded |-> <<>>, outcome |-> None]
    /\ files = <<>>
    /\ options = [exact_match |-> TRUE, similar_images |-> TRUE, similar_videos |-> TRUE,
                  similarity_threshold |-> DEFAULT_THRESHOLD, thread_count |-> MaxThreads]
    /\ stop_flag = FALSE
    /\ file_hashes = <<>>
    /\ perceptual_hashes = <<>>
    /\ video_signatures = <<>>
    /\ duplicate_groups = <<>>
    /\ task = NoTasks(<<>>)
    /\ pc = At("none", "idle")
    /\ result = <<>>
    /\ vanished = {}
    /\ progress_callback = FALSE
    /\ reports = <<>>
    /\ thread = Idle
    /\ comparison = Idle
    /\ deletion = Idle

\* analyze returns None
ReturnNone == [analysis EXCEPT !.at = "done", !.outcome = None]

\* lines 110-112: the size floor
analyze_size ==
    /\ analysis.at = "size"
    /\ analysis' = IF analysis.file_size < MIN_VIDEO_BYTES
                   THEN ReturnNone
                   ELSE [analysis EXCEPT !.at = "open"]
    /\ UNCHANGED <<scanner_fields, thread, comparison, deletion>>

\* lines 114-117: cv2.VideoCapture and cap.isOpened()
analyze_open ==
    /\ analysis.at = "open"
    /\ analysis' = IF ~analysis.opened
                   THEN ReturnNone
                   ELSE [analysis EXCEPT !.at = "props"]
    /\ UNCHANGED <<scanner_fields, thread, comparison, deletion>>

\* the validation of the properties without the test of the dimensions
analyze_props_no_dimension_test ==
    /\ analysis.at = "props"
    /\ analysis' = IF analysis.fps <= 0 \/ analysis.frame_count <= 0
                   THEN ReturnNone
                   ELSE [analysis EXCEPT !.at = "sample"]
    /\ UNCHANGED <<scanner_fields, thread, comparison, deletion>>

\* lines 120-132: the properties and their validation
analyze_props ==
    /\ analysis.at = "props"
    /\ analysis' = IF \/ analysis.fps <= 0
                      \/ analysis.frame_count <= 0
                      \/ analysis.width <= 0
                      \/ analysis.height <= 0
                   THEN ReturnNone
                   ELSE [analysis EXCEPT !.at = "sample"]
    /\ UNCHANGED <<scanner_fields, thread, comparison, deletion>>

\* the seconds spent in analyze after a turn that took `seconds` more; what
\* lies past the budget is counted as one second past it
Elapsed(seconds) == Min(analysis.elapsed + seconds, TIMEOUT_SECONDS + 1)

\* lines 144-165: one turn of the sampling loop, which takes `seconds` and in
\* which the read yields a frame ("ok"), yields none ("fail") or an exception
\* is raised ("raise"); self.timeout_seconds is read nowhere
analyze_sample(read, seconds) ==
    /\ analysis.at = "sample"
    /\ analysis.k <= sample_count(analysis.frame_count)
    /\ LET idx == frame_index(analysis.frame_count, analysis.k)
           hashes == IF read = "ok"
                     THEN Append(analysis.frame_hashes, frame_md5(idx))
                     ELSE analysis.frame_hashes
           successes == IF read = "ok" THEN analysis.successful_reads + 1
                        ELSE analysis.successful_reads
           \* the sample positions at which a frame was decoded, for the record
           positions == IF read = "ok" THEN Append(analysis.decoded, analysis.k)
                        ELSE analysis.decoded
       IN  analysis' =
              IF /\ read # "raise"
                 /\ Len(hashes) = 0
                 /\ successes = 0
                 /\ idx > analysis.frame_count \div 2
              THEN [ReturnNone EXCEPT !.reads = @ + 1, !.elapsed = Elapsed(seconds)]
              ELSE [analysis EXCEPT !.k = @ + 1, !.frame_hashes = hashes,
                                    !.successful_reads = successes, !.reads = @ + 1,
                                    !.elapsed = Elapsed(seconds), !.decoded = positions]
    /\ UNCHANGED <<scanner_fields, thread, comparison, deletion>>

\* the return of analyze with a signature from one frame hash on
analyze_return_one_frame ==
    /\ analysis.at = "sample"
    /\ analysis.k > sample_count(analysis.frame_count)
    /\ analysis' =
          IF Len(analysis.frame_hashes) < 1
          THEN ReturnNone
          ELSE [analysis EXCEPT !.at = "done",
                   !.outcome = [frame_hashes |-> analysis.frame_hashes,
                                duration |-> analysis.frame_count \div analysis.fps,
                                resolution |-> <<analysis.width, analysis.height>>,
                                fps |-> analysis.fps,
                                frame_count |-> analysis.frame_count]]
    /\ UNCHANGED <<scanner_fields, thread, comparison, deletion>>

\* lines 167-179: fewer than 2 frame hashes yield None, else the signature
analyze_return ==
    /\ analysis.at = "sample"
    /\ analysis.k > sample_count(analysis.frame_count)
    /\ analysis' =
          IF Len(analysis.frame_hashes) < MIN_FRAMES
          THEN ReturnNone
          ELSE [analysis EXCEPT !.at = "done",
                   !.outcome = [frame_hashes |-> analysis.frame_hashes,
                                duration |-> analysis.frame_count \div analysis.fps,
                                resolution |-> <<analysis.width, analysis.height>>,
                                fps |-> analysis.fps,
                                frame_count |-> analysis.frame_count]]
    /\ UNCHANGED <<scanner_fields, thread, comparison, deletion>>

NextVideo ==
    \/ analyze_size
    \/ analyze_open
    \/ analyze_props
    \/ \E read \in {"ok", "fail", "raise"} :
          \E seconds \in {0, MaxReadSeconds} : analyze_sample(read, seconds)
    \/ analyze_return

SpecVideo == InitVideo /\ [][NextVideo]_vars

(***************************************************************************)
(* One scanner asked for its duplicates more than once: find_duplicates is *)
(* called again on the object after it has returned.                       *)
(***************************************************************************)
\* a further call of find_duplicates: duplicate_groups is a fresh local list
\* of the call; the maps, the file list and the stop flag are the object's
\* and no line of the call resets them
find_duplicates_again ==
    /\ pc = At("none", "returned")
    /\ pc' = At("none", "new")
    /\ duplicate_groups' = <<>>
    /\ result' = <<>>
    /\ UNCHANGED <<files, options, stop_flag, file_hashes, perceptual_hashes,
                   video_signatures, task, vanished>>
    /\ UNCHANGED <<progress_callback, reports, outside>>

NextRerun ==
    \/ Next
    \/ find_duplicates_again

InitRerun == InitWith(MaxRerunFiles)

SpecRerun == InitRerun /\ [][NextRerun]_vars

(***************************************************************************)
(* The scanner with the exact stage off and both perceptual stages on, at  *)
(* a threshold that groups the sample images transitively and at one that  *)
(* does not.                                                               *)
(***************************************************************************)
PassThresholds == {80, DEFAULT_THRESHOLD}

InitPassesWith(n) ==
    /\ \E present \in SUBSET Paths :
          /\ Cardinality(present) <= n
          /\ files = ScannedFiles(present)
    /\ \E t \in PassThresholds :
          options = [exact_match |-> FALSE, similar_images |-> TRUE, similar_videos |-> TRUE,
                     similarity_threshold |-> t, thread_count |-> MaxThreads]
    /\ stop_flag = FALSE
    /\ file_hashes = <<>>
    /\ perceptual_hashes = <<>>
    /\ video_signatures = <<>>
    /\ duplicate_groups = <<>>
    /\ task = NoTasks(files)
    /\ pc = At("none", "new")
    /\ result = <<>>
    /\ vanished = {}
    /\ progress_callback = FALSE
    /\ reports = <<>>
    /\ thread = Idle
    /\ comparison = Idle
    /\ analysis = Idle
    /\ deletion = Idle

InitPasses == InitPassesWith(MaxPassFiles)

SpecPasses == InitPasses /\ [][Next]_vars

(***************************************************************************)
(* find_duplicates with the scheduling of the interpreter: the calling     *)
(* thread and the workers of the pool keep running while they can.         *)
(***************************************************************************)
InitScheduled == InitWith(MaxScheduledFiles)

SpecScheduled == InitScheduled /\ [][Next]_vars /\ WF_vars(Next)

(***************************************************************************)
(* DeletionManager.delete_duplicates and restore_backup, one step per      *)
(* statement: the selection, the backup archive written entry by entry,    *)
(* the removals, and the extraction of the archive.                        *)
(***************************************************************************)
\* the files of the duplicate groups handed to the deletion manager
DeletePaths == {"p/a.jpg", "q/a.jpg", "p/b.jpg", "q/c.jpg"}

\* Path(file_path).name
BaseName(p) ==
    IF p \in {"p/a.jpg", "q/a.jpg"} THEN "a.jpg"
    ELSE IF p = "p/b.jpg" THEN "b.jpg" ELSE "c.jpg"

\* the bytes of a file, as a content identifier
Content(p) == IF p \in {"p/a.jpg", "p/b.jpg"} THEN "bytes1" ELSE "bytes2"

\* the 'size' entry of a file's info
InfoSize(p) == IF p \in {"p/a.jpg", "p/b.jpg"} THEN 10 ELSE 20

FileInfo(p) == [path |-> p, size |-> InfoSize(p)]

\* the members of a group are distinct files
IsGroup(g) ==
    /\ Len(g) >= 2
    /\ \A i, j \in 1..Len(g) : g[i].path = g[j].path => i = j

DeleteGroups ==
    {g \in UNION {[1..n -> {FileInfo(p) : p \in DeletePaths}] : n \in 2..MaxGroupSize} :
        IsGroup(g)}

\* lists of pairwise disjoint groups, as find_duplicates returns them
DeleteGroupLists ==
    {gs \in UNION {[1..n -> DeleteGroups] : n \in 0..MaxGroups} :
        \A a, b \in 1..Len(gs) :
            a # b => {gs[a][i].path : i \in 1..Len(gs[a])}
                        \cap {gs[b][i].path : i \in 1..Len(gs[b])} = {}}

\* max(group, key=lambda x: x['size']): the first member of maximal size
BestFile(group) ==
    LET i == CHOOSE i \in 1..Len(group) :
                 /\ \A j \in 1..Len(group) : group[j].size <= group[i].size
                 /\ \A j \in 1..(i - 1) : group[j].size < group[i].size
    IN group[i]

RECURSIVE PathsExcept(_, _)
PathsExcept(group, path) ==
    IF group = <<>> THEN <<>>
    ELSE IF Head(group).path # path
         THEN <<Head(group).path>> \o PathsExcept(Tail(group), path)
         ELSE PathsExcept(Tail(group), path)

SelectOfGroup(group, mode) ==
    IF mode = "keep_one" THEN [i \in 1..(Len(group) - 1) |-> group[i + 1].path]
    ELSE IF mode = "keep_best" THEN PathsExcept(group, BestFile(group).path)
    ELSE <<>>

RECURSIVE select_files_for_deletion(_, _)
select_files_for_deletion(groups, mode) ==
    IF groups = <<>> THEN <<>>
    ELSE SelectOfGroup(Head(groups), mode)
            \o select_files_for_deletion(Tail(groups), mode)

\* ZipFile.extractall: the members are written to restore_dir under their
\* archive names, a later entry of a name replacing an earlier one
extractall(archive) ==
    {[name |-> archive[i].arcname, content |-> archive[i].content] :
        i \in {i \in 1..Len(archive) :
                  \A j \in (i + 1)..Len(archive) : archive[j].arcname # archive[i].arcname}}

InitDeletion ==
    /\ files = <<>>
    /\ options = [exact_match |-> TRUE, similar_images |-> FALSE, similar_videos |-> FALSE,
                  similarity_threshold |-> DEFAULT_THRESHOLD, thread_count |-> MaxThreads]
    /\ stop_flag = FALSE
    /\ file_hashes = <<>>
    /\ perceptual_hashes = <<>>
    /\ video_signatures = <<>>
    /\ duplicate_groups = <<>>
    /\ task = NoTasks(<<>>)
    /\ pc = At("none", "idle")
    /\ result = <<>>
    /\ vanished = {}
    /\ progress_callback = FALSE
    /\ reports = <<>>
    /\ thread = Idle
    /\ comparison = Idle
    /\ analysis = Idle
    /\ \E groups \in DeleteGroupLists :
       \E mode \in {"keep_one", "keep_best", "custom"} :
       \E missing \in {m \in SUBSET DeletePaths : Cardinality(m) <= MaxMissing} :
       \E writable \in BOOLEAN :
          deletion = [at |-> "call", groups |-> groups, mode |-> mode,
                      disk0 |-> DeletePaths \ missing, disk |-> DeletePaths \ missing,
                      writable |-> writable, files_to_delete |-> <<>>, k |-> 1,
                      archive |-> <<>>, closed |-> FALSE, removed |-> {},
                      failures |-> 0, restored |-> {}, outcome |-> "none"]

deletion_frame == UNCHANGED <<scanner_fields, thread, comparison, analysis>>

\* files_to_delete = self._select_files_for_deletion(...); raise if empty
delete_select ==
    /\ deletion.at = "call"
    /\ LET selected == select_files_for_deletion(deletion.groups, deletion.mode)
       IN deletion' = IF selected = <<>>
                      THEN [deletion EXCEPT !.at = "raised", !.outcome = "ValueError"]
                      ELSE [deletion EXCEPT !.at = "open", !.files_to_delete = selected]
    /\ deletion_frame

\* zipfile.ZipFile(backup_path, 'w', ...): fails when the archive cannot be created
delete_backup_open ==
    /\ deletion.at = "open"
    /\ deletion' = IF deletion.writable
                   THEN [deletion EXCEPT !.at = "backup", !.k = 1]
                   ELSE [deletion EXCEPT !.at = "raised", !.outcome = "OSError"]
    /\ deletion_frame

ArchiveEntry(p) == [arcname |-> BaseName(p), content |-> Content(p), source |-> p]

\* a variant that removes each file as soon as its entry is written
delete_backup_write_moving(fail) ==
    /\ deletion.at = "backup"
    /\ deletion.k <= Len(deletion.files_to_delete)
    /\ LET p == deletion.files_to_delete[deletion.k]
       IN IF p \notin deletion.disk
          THEN /\ ~fail
               /\ deletion' = [deletion EXCEPT !.k = @ + 1]
          ELSE IF fail
          THEN /\ deletion.failures < MaxDeleteFailures
               /\ deletion' = [deletion EXCEPT !.at = "raised", !.outcome = "OSError",
                                               !.failures = @ + 1]
          ELSE deletion' = [deletion EXCEPT !.archive = Append(@, ArchiveEntry(p)),
                                            !.disk = @ \ {p},
                                            !.removed = @ \cup {p},
                                            !.k = @ + 1]
    /\ deletion_frame

\* one turn of the loop of _create_backup: a path that no longer exists is
\* skipped, zipf.write of an existing one adds an entry or raises
delete_backup_write(fail) ==
    /\ deletion.at = "backup"
    /\ deletion.k <= Len(deletion.files_to_delete)
    /\ LET p == deletion.files_to_delete[deletion.k]
       IN IF p \notin deletion.disk
          THEN /\ ~fail
               /\ deletion' = [deletion EXCEPT !.k = @ + 1]
          ELSE IF fail
          THEN /\ deletion.failures < MaxDeleteFailures
               /\ deletion' = [deletion EXCEPT !.at = "raised", !.outcome = "OSError",
                                               !.failures = @ + 1]
          ELSE deletion' = [deletion EXCEPT !.archive = Append(@, ArchiveEntry(p)),
                                            !.k = @ + 1]
    /\ deletion_frame

\* the with block of _create_backup ends: the archive is closed
delete_backup_close ==
    /\ deletion.at = "backup"
    /\ deletion.k > Len(deletion.files_to_delete)
    /\ deletion' = [deletion EXCEPT !.at = "delete", !.closed = TRUE, !.k = 1]
    /\ deletion_frame

\* one turn of the loop of _delete_files: send2trash / os.remove, with every
\* exception caught and printed
delete_remove(fail) ==
    /\ deletion.at = "delete"
    /\ deletion.k <= Len(deletion.files_to_delete)
    /\ LET p == deletion.files_to_delete[deletion.k]
       IN IF p \notin deletion.disk
          THEN /\ ~fail
               /\ deletion' = [deletion EXCEPT !.k = @ + 1]
          ELSE IF fail
          THEN /\ deletion.failures < MaxDeleteFailures
               /\ deletion' = [deletion EXCEPT !.failures = @ + 1, !.k = @ + 1]
          ELSE deletion' = [deletion EXCEPT !.disk = @ \ {p},
                                            !.removed = @ \cup {p},
                                            !.k = @ + 1]
    /\ deletion_frame

\* return backup_path
delete_return ==
    /\ deletion.at = "delete"
    /\ deletion.k > Len(deletion.files_to_delete)
    /\ deletion' = [deletion EXCEPT !.at = "returned", !.outcome = "backup_path"]
    /\ deletion_frame

\* restore_backup(backup_path, restore_dir) of the archive just returned
restore_backup ==
    /\ deletion.at = "returned"
    /\ deletion' = [deletion EXCEPT !.at = "restored",
                                    !.restored = extractall(deletion.archive)]
    /\ deletion_frame

NextDeletion ==
    \/ delete_select
    \/ delete_backup_open
    \/ \E fail \in BOOLEAN : delete_backup_write(fail)
    \/ delete_backup_close
    \/ \E fail \in BOOLEAN : delete_remove(fail)
    \/ delete_return
    \/ restore_backup

SpecDeletion == InitDeletion /\ [][NextDeletion]_vars

(***************************************************************************)
(* Vocabulary of the properties.                                           *)
(***************************************************************************)
Returned == pc = At("none", "returned")

Raise == pc = At("none", "raised")

\* position of a path in the discovered file list
Position(p) == CHOOSE i \in Positions : files[i] = p

\* the (group, member) slots of a list of groups
Slots(groups) == {<<g, m>> \in (1..Len(groups)) \X Positions : m <= Len(groups[g])}

\* the paths that are in some group of a list of groups
Grouped(groups) == UNION {GroupPaths(groups[g]) : g \in 1..Len(groups)}

SameGroup(groups, p, q) == \E g \in 1..Len(groups) : {p, q} \subseteq GroupPaths(groups[g])

\* the files of stage s whose analysis succeeds on an unchanged disk
Successes(s) == {p \in Range(files) : Applicable(s, p) /\ Analyze(s, p, {}) # None}

\* find_duplicates has gone past the stage s
StagePassed(s) ==
    \/ pc.at \in {"merge", "returned"}
    \/ s = "exact" /\ pc.stage \in {"image", "video"}
    \/ s = "image" /\ pc.stage = "video"

\* the groups each pass builds from the maps as they are now
ExactGroups == find_exact_duplicates(file_hashes)

ImageGroups == find_similar_images(perceptual_hashes, options.similarity_threshold)

VideoGroups == find_similar_videos(video_signatures, options.similarity_threshold)

(***************************************************************************)
(* C1: no path occurs twice in the returned list, neither inside one group *)
(* nor in two groups, whatever the stages, the completion order and the    *)
(* moment of stop().                                                       *)
(***************************************************************************)
C1_NoPathTwice ==
    Returned =>
        \A x \in Slots(result) : \A y \in Slots(result) :
            x # y => result[x[1]][x[2]].path # result[y[1]][y[2]].path

\* a scan whose merge step met a contested file and dropped a group
C1_Witness ==
    /\ Returned
    /\ result # <<>>
    /\ Len(duplicate_groups) > Len(result)

(***************************************************************************)
(* C2: every returned group has at least 2 members, whatever the stages,   *)
(* the completion order and the moment of stop().                          *)
(***************************************************************************)
C2_GroupsOfTwo == Returned => \A g \in 1..Len(result) : Len(result[g]) >= 2

\* a stopped scan that returned a group and left a hashed file ungrouped
C2_Witness ==
    /\ Returned
    /\ stop_flag
    /\ result # <<>>
    /\ Keys(file_hashes) \ Grouped(result) # {}

(***************************************************************************)
(* C3: earlier passes win contested files.  Every exact group is in the    *)
(* output unchanged; an image or video group that shares a path with an    *)
(* exact group is not in the output, and its members outside the exact     *)
(* groups are in no output group; a.jpg = b.jpg, c.jpg similar to a.jpg    *)
(* with exact_match and similar_images gives the one group {a.jpg, b.jpg}. *)
(***************************************************************************)
C3_EarlierPassWins ==
    Returned =>
        /\ \A g \in 1..Len(ExactGroups) : ExactGroups[g] \in Range(result)
        /\ \A later \in Range(ImageGroups) \cup Range(VideoGroups) :
              GroupPaths(later) \cap Grouped(ExactGroups) # {} =>
                  /\ later \notin Range(result)
                  /\ (GroupPaths(later) \ Grouped(ExactGroups)) \cap Grouped(result) = {}
        /\ ( /\ files = <<"a.jpg", "b.jpg", "c.jpg">>
             /\ options.exact_match /\ options.similar_images
             /\ ~stop_flag )
           => /\ Len(result) = 1
              /\ GroupPaths(result[1]) = {"a.jpg", "b.jpg"}

\* the scenario: the image pass grouped c.jpg with a.jpg, the merge dropped it
C3_Witness ==
    /\ Returned
    /\ ~stop_flag
    /\ files = <<"a.jpg", "b.jpg", "c.jpg">>
    /\ options.exact_match /\ options.similar_images
    /\ \E g \in 1..Len(ImageGroups) : {"a.jpg", "c.jpg"} \subseteq GroupPaths(ImageGroups[g])
    /\ "c.jpg" \notin Grouped(result)

(***************************************************************************)
(* C4: stop() never makes find_duplicates raise.  On a disk that may lose  *)
(* files, the only way find_duplicates raises is _create_file_info on a    *)
(* recorded file that is gone; a stop request alone always ends in a       *)
(* normal return.                                                          *)
(***************************************************************************)
C4_StopNeverRaises ==
    Raise => \E s \in Stages : \E k \in Keys(StageMap(s)) : k \in vanished

\* stop() arrived in the middle of the exact stage: some hashes recorded,
\* one readable file left out, and find_duplicates returned
C4_Witness ==
    /\ Returned
    /\ stop_flag
    /\ vanished = {}
    /\ file_hashes # <<>>
    /\ Successes("exact") \ Keys(file_hashes) # {}

(***************************************************************************)
(* C5: once the stop signal is set, no analysis is submitted to a pool and *)
(* no worker starts one, in the current stage and in every later stage;    *)
(* only analyses that were running may still finish.                       *)
(***************************************************************************)
C5_NoWorkAfterStop ==
    [][stop_flag =>
          \A s \in Stages : \A i \in Positions :
              /\ task'[s][i] = "pending" => task[s][i] = "pending"
              /\ task'[s][i] = "running" => task[s][i] = "running"]_vars

\* the map of stage s when the results of the first n files arrive in order
RECURSIVE InOrderMap(_, _)
InOrderMap(s, n) ==
    IF n = 0 THEN <<>>
    ELSE IF files[n] \in Successes(s)
         THEN DictPut(InOrderMap(s, n - 1), files[n], Analyze(s, files[n], {}))
         ELSE InOrderMap(s, n - 1)

InOrderGroups ==
    (IF options.exact_match
     THEN find_exact_duplicates(InOrderMap("exact", Len(files))) ELSE <<>>)
    \o (IF options.similar_images
        THEN find_similar_images(InOrderMap("image", Len(files)),
                                 options.similarity_threshold) ELSE <<>>)
    \o (IF options.similar_videos
        THEN find_similar_videos(InOrderMap("video", Len(files)),
                                 options.similarity_threshold) ELSE <<>>)

(***************************************************************************)
(* C6: with no stop request, find_duplicates returns the same list of      *)
(* groups (same groups, same group order, same member order) whatever      *)
(* order the worker tasks complete in: the list of the run in which the    *)
(* results arrive in discovery order.                                      *)
(***************************************************************************)
C6_SameResultEveryOrder ==
    (Returned /\ ~stop_flag) => result = merge_duplicate_groups(InOrderGroups)

(***************************************************************************)
(* C7: inside every returned group the members are in discovery order, so  *)
(* the first member is the earliest-discovered file of the group, for      *)
(* every completion order.                                                 *)
(***************************************************************************)
C7_MembersInDiscoveryOrder ==
    Returned =>
        \A g \in 1..Len(result) : \A m \in 1..Len(result[g]) : \A n \in 1..Len(result[g]) :
            m < n => Position(result[g][m].path) < Position(result[g][n].path)

\* how far find_duplicates has come, as a number
StageRank(s) ==
    CASE s = "exact" -> 1
      [] s = "image" -> 2
      [] s = "video" -> 3
      [] s = "none" -> IF pc.at = "new" THEN 0 ELSE 4

(***************************************************************************)
(* C8: the stages run in the order exact, image, video and never overlap:  *)
(* a task is queued or running only while find_duplicates is inside its    *)
(* own stage, also after stop(); a disabled stage has no task at all.      *)
(***************************************************************************)
C8_StagesInOrderNoOverlap ==
    /\ [](\A s \in Stages : \A i \in Positions :
            /\ task[s][i] \in {"pending", "running"} => pc.stage = s
            /\ ~StageEnabled(s) => task[s][i] = "none")
    /\ [][StageRank(pc.stage) <= StageRank(pc.stage)']_vars

\* after a stop during the exact stage, the image stage has an analysis
\* running
C8_Witness ==
    /\ pc = At("image", "loop")
    /\ stop_flag
    /\ Running("image") # {}
    /\ file_hashes # <<>>
    /\ Successes("exact") \ Keys(file_hashes) # {}

(***************************************************************************)
(* C9: an analyzer failure excludes only the failing file from the map of  *)
(* its stage.  After a stage that ran without a stop request its map holds *)
(* no failing file and every file whose analysis succeeds and that stayed  *)
(* on the disk, and find_duplicates raises only for a recorded file that   *)
(* is gone, never for a failed analysis.                                   *)
(***************************************************************************)
C9_FailureExcludesOneFile ==
    /\ \A s \in Stages :
          (StagePassed(s) /\ StageEnabled(s) /\ ~stop_flag /\ files # <<>>) =>
              /\ Keys(StageMap(s)) \subseteq Successes(s)
              /\ Successes(s) \ vanished \subseteq Keys(StageMap(s))
    /\ Raise => \E k \in Keys(file_hashes) \cup Keys(perceptual_hashes)
                          \cup Keys(video_signatures) : k \in vanished

\* x.jpg failed in the exact and in the image stage, the other image was
\* recorded in both, and find_duplicates returned
C9_Witness ==
    /\ Returned
    /\ ~stop_flag
    /\ vanished = {}
    /\ "x.jpg" \in Range(files)
    /\ file_hashes # <<>>
    /\ perceptual_hashes # <<>>

ExactOnly == options.exact_match /\ ~options.similar_images /\ ~options.similar_videos

(***************************************************************************)
(* C10: with only exact_match enabled and no stop request, two files are   *)
(* in the same returned group iff both have a recorded digest and the two  *)
(* digests are identical; a file with a digest of its own or without a     *)
(* digest is in no group.                                                  *)
(***************************************************************************)
C10_ExactGroupsByDigest ==
    (Returned /\ ExactOnly /\ ~stop_flag) =>
        /\ \A p \in Range(files) : \A q \in Range(files) \ {p} :
              SameGroup(result, p, q) <=>
                  /\ {p, q} \subseteq Keys(file_hashes)
                  /\ DictGet(file_hashes, p) = DictGet(file_hashes, q)
        /\ \A p \in Range(files) :
              p \in Grouped(result) =>
                  /\ p \notin Unreadable
                  /\ \E q \in Range(files) \ {p} :
                        hash_file(q, {}) = hash_file(p, {})

\* a.jpg and b.jpg came out as the one group, next to a third file
C10_Witness ==
    /\ Returned
    /\ ExactOnly
    /\ ~stop_flag
    /\ Len(files) = 3
    /\ Len(result) = 1
    /\ GroupPaths(result[1]) = {"a.jpg", "b.jpg"}

\* scan_directory is about to be called on a folder that is not on the disk
ScanOfMissing ==
    /\ thread.at = "loop"
    /\ thread.folder <= Len(thread.folders)
    /\ ~thread.stop_requested
    /\ thread.folders[thread.folder] \notin ExistingFolders

\* one of the folders of the scan is not on the disk
SomeFolderMissing ==
    \E k \in 1..Len(thread.folders) : thread.folders[k] \notin ExistingFolders

(***************************************************************************)
(* C11: scanning a root directory that does not exist fails with an error: *)
(* the call of scan_directory on it raises and the run ends by emitting    *)
(* error and nothing else.  When any folder of a scan is missing, no stage *)
(* is started: find_duplicates is never called and no group list is        *)
(* delivered through finished.                                             *)
(***************************************************************************)
C11_MissingFolderNoStage ==
    /\ [](SomeFolderMissing =>
             /\ pc = At("none", "idle")
             /\ \A s \in Stages : \A i \in Positions : task[s][i] = "none"
             /\ thread.finished = <<>>)
    /\ [][/\ (ScanOfMissing /\ thread'.at # "loop") => thread'.at = "except"
          /\ (thread.at = "except" /\ thread'.at # "except") =>
                /\ thread'.at = "done"
                /\ thread'.error # <<>>
                /\ thread'.finished = <<>>]_vars

\* a run that scanned a folder, met a missing one and ended with an error
C11_Witness ==
    /\ thread.at = "done"
    /\ SomeFolderMissing
    /\ files # <<>>
    /\ thread.error # <<>>
    /\ ~thread.stop_requested

\* a similarity pass has compared two recorded fingerprints or signatures
ComparisonMade ==
    \/ StagePassed("image") /\ Len(perceptual_hashes) >= 2
    \/ StagePassed("video") /\ Len(video_signatures) >= 2

(***************************************************************************)
(* C12: a similarity_threshold outside [50, 100] is rejected before any    *)
(* stage starts, so no similarity pass ever compares two entries with a    *)
(* threshold outside that range.                                           *)
(***************************************************************************)
C12_ThresholdInRange ==
    ComparisonMade => options.similarity_threshold \in MIN_THRESHOLD..MAX_THRESHOLD

\* a step in which neither find_duplicates nor a pool worker moved: in the
\* scanner on its own, such a step is a call of stop()
StopStep == pc' = pc /\ task' = task

(***************************************************************************)
(* C13: stop() only sets the stop signal.  A call changes no entry of the  *)
(* file list or of the hash, perceptual-hash and video-signature maps (nor *)
(* the groups built so far), the signal once set stays set, a further call *)
(* changes nothing at all, and the groups returned after a stop are those  *)
(* the passes build from the entries recorded in the maps.                 *)
(***************************************************************************)
C13_StopOnlySetsFlag ==
    /\ []((Returned /\ stop_flag /\ files # <<>>) =>
             result = merge_duplicate_groups(ExactGroups \o ImageGroups \o VideoGroups))
    /\ [][/\ stop_flag => stop_flag'
          /\ StopStep =>
                /\ stop_flag'
                /\ UNCHANGED <<files, options, file_hashes, perceptual_hashes,
                               video_signatures, duplicate_groups, result, reports>>
          /\ (stop_flag /\ StopStep) => UNCHANGED vars]_vars

\* a stopped scan returned a group although a file was left unrecorded
C13_Witness ==
    /\ Returned
    /\ stop_flag
    /\ result # <<>>
    /\ Len(file_hashes) < Len(files)

(***************************************************************************)
(* C14: a stop request, at whatever point of a scan it is made, does not   *)
(* suppress the result: a run of the ScannerThread that has ended has      *)
(* delivered a group list through finished, unless it reported an error.   *)
(***************************************************************************)
C14_StopKeepsResult ==
    thread.at = "done" => (thread.finished # <<>> \/ thread.error # <<>>)

\* the stages the options turn on
EnabledStages == {s \in Stages : StageEnabled(s)}

(***************************************************************************)
(* C15: progress bands are apportioned across the enabled stages: when a   *)
(* scan that was not stopped has returned, for every non-empty choice of   *)
(* enabled stages the last report carries percent 100 and every earlier    *)
(* report a percent below 100.                                             *)
(***************************************************************************)
C15_HundredAtLastReport ==
    (Returned /\ ~stop_flag /\ files # <<>> /\ EnabledStages # {}) =>
        /\ reports # <<>>
        /\ reports[Len(reports)].percent = 100
        /\ \A k \in 1..(Len(reports) - 1) : reports[k].percent < 100

\* the files submitted to the pool of the stage find_duplicates is in
Submitted == {j \in Positions : task[pc.stage][j] # "none"}

(***************************************************************************)
(* C16: every call of the progress callback carries a percent in 0..100    *)
(* and a processed count with 1 <= processed <= total, and its total is    *)
(* the number of files submitted to the pool of the stage that reports.    *)
(***************************************************************************)
C16_ReportWellFormed ==
    /\ \A k \in 1..Len(reports) :
          /\ reports[k].percent \in 0..100
          /\ 1 <= reports[k].processed
          /\ reports[k].processed <= reports[k].total
    /\ (pc.at \in {"loop", "exit"} /\ reports # <<>>
            /\ reports[Len(reports)].stage = pc.stage) =>
          reports[Len(reports)].total = Cardinality(Submitted)

\* the image stage reports on fewer files than the scan found
C16_Witness ==
    /\ pc = At("image", "exit")
    /\ reports # <<>>
    /\ reports[Len(reports)].stage = "image"
    /\ reports[Len(reports)].total < Len(files)
    /\ reports[Len(reports)].processed = reports[Len(reports)].total

\* the call of a compare function has returned
Compared(kind) == comparison.at = "done" /\ comparison.kind = kind

(***************************************************************************)
(* C17: image comparison and video comparison are symmetric: the result of *)
(* compare(x, y, t) is that of compare(y, x, t), for all fingerprints and  *)
(* signatures (of different lengths and durations too) and thresholds.     *)
(***************************************************************************)
C17_CompareSymmetric ==
    /\ Compared("image") =>
          comparison.similar = image_compare(comparison.y, comparison.x, comparison.threshold)
    /\ Compared("video") =>
          comparison.similar = video_compare(comparison.y, comparison.x, comparison.threshold)

\* two signatures of different lengths and durations were found similar
C17_Witness ==
    /\ Compared("video")
    /\ comparison.similar
    /\ Len(comparison.x.frame_hashes) < Len(comparison.y.frame_hashes)
    /\ comparison.x.duration # comparison.y.duration
    /\ comparison.threshold > 0

(***************************************************************************)
(* C18: a lower threshold is never stricter: when compare(x, y, t1) is     *)
(* true and t2 <= t1, compare(x, y, t2) is true, for images and videos.    *)
(***************************************************************************)
C18_LowerThresholdNotStricter ==
    \A t2 \in SampleThresholds :
        (comparison.at = "done" /\ comparison.similar /\ t2 <= comparison.threshold) =>
            IF comparison.kind = "image"
            THEN image_compare(comparison.x, comparison.y, t2)
            ELSE video_compare(comparison.x, comparison.y, t2)

\* two different fingerprints were found similar at 90
C18_Witness ==
    /\ Compared("image")
    /\ comparison.similar
    /\ comparison.x.ahash # comparison.y.ahash
    /\ comparison.threshold = 90

\* the shorter length of the two compared frame-hash sequences
ShorterLength ==
    IF Len(comparison.x.frame_hashes) <= Len(comparison.y.frame_hashes)
    THEN Len(comparison.x.frame_hashes) ELSE Len(comparison.y.frame_hashes)

\* positions below the shorter length at which the two sequences agree
EqualPositions ==
    {i \in 1..ShorterLength : comparison.x.frame_hashes[i] = comparison.y.frame_hashes[i]}

\* both durations are positive and differ by more than 5% of the larger
DurationsApart ==
    LET d1 == comparison.x.duration
        d2 == comparison.y.duration
    IN  /\ d1 > 0
        /\ d2 > 0
        /\ \/ d1 >= d2 /\ 100 * (d1 - d2) > 5 * d1
           \/ d2 > d1 /\ 100 * (d2 - d1) > 5 * d2

\* the two compared signatures as the video_signatures map of two files
PairOfSignatures ==
    <<[key |-> "v.mp4", value |-> comparison.x], [key |-> "w.mp4", value |-> comparison.y]>>

(***************************************************************************)
(* C19: for two signatures with frames, video compare is true if and only  *)
(* if s >= t, where s is the number of positions below the shorter length  *)
(* with equal hashes, over the shorter length, times 100, and times 0.8    *)
(* exactly when both durations are positive and differ by more than 5% of  *)
(* the larger.  Durations of 30 s and 29 s get no penalty, and two such    *)
(* videos with at least 90% equal frames are grouped at threshold 90.      *)
(***************************************************************************)
C19_VideoCompareFormula ==
    (Compared("video") /\ ShorterLength > 0) =>
        /\ comparison.similar <=>
              IF DurationsApart
              THEN 8 * 100 * Cardinality(EqualPositions)
                      >= 10 * comparison.threshold * ShorterLength
              ELSE 100 * Cardinality(EqualPositions) >= comparison.threshold * ShorterLength
        /\ ({comparison.x.duration, comparison.y.duration} = {29, 30}
                /\ 10 * Cardinality(EqualPositions) >= 9 * ShorterLength
                /\ comparison.threshold = 90) =>
              /\ ~DurationsApart
              /\ comparison.similar
              /\ Len(find_similar_videos(PairOfSignatures, comparison.threshold)) = 1

\* videos of 30 s and 29 s that agree at nine sampled frames of ten were
\* compared at 90 and found similar
C19_Witness ==
    /\ Compared("video")
    /\ comparison.x.duration = 30
    /\ comparison.y.duration = 29
    /\ ShorterLength = 10
    /\ Cardinality(EqualPositions) = 9
    /\ comparison.threshold = 90
    /\ comparison.similar

\* the file is under the size floor, or a reported property is not positive
NotAnalysable ==
    \/ analysis.file_size < MIN_VIDEO_BYTES
    \/ analysis.fps <= 0
    \/ analysis.frame_count <= 0
    \/ analysis.width <= 0
    \/ analysis.height <= 0

(***************************************************************************)
(* C20: video analysis yields no signature, and reads no frame, for every  *)
(* file smaller than the size floor and for every video whose reported     *)
(* fps, frame count, width or height is not strictly positive.             *)
(***************************************************************************)
C20_NoSignatureWhenInvalid ==
    NotAnalysable =>
        /\ analysis.reads = 0
        /\ analysis.frame_hashes = <<>>
        /\ analysis.outcome = None
        /\ analysis.at \in {"size", "open", "props", "done"}

\* a video that opens, with a height of 0 only, was turned down
C20_Witness ==
    /\ analysis.at = "done"
    /\ analysis.file_size >= MIN_VIDEO_BYTES
    /\ analysis.opened
    /\ analysis.fps > 0
    /\ analysis.frame_count > 0
    /\ analysis.width > 0
    /\ analysis.height <= 0
    /\ analysis.outcome = None

(***************************************************************************)
(* C21: video analysis enforces a time budget per file: an analysis whose  *)
(* sampling ran past the budget has returned no signature, the frame       *)
(* hashes gathered so far being discarded.                                 *)
(***************************************************************************)
C21_BudgetEnforced ==
    (analysis.at = "done" /\ analysis.elapsed > TIMEOUT_SECONDS) =>
        analysis.outcome = None

\* the k-th smallest number of a set of numbers
Nth(A, k) == CHOOSE n \in A : Cardinality({m \in A : m < n}) = k - 1

\* the groups of a list at the positions of A, in their order
Pick(groups, A) == [k \in 1..Cardinality(A) |-> groups[Nth(A, k)]]

\* A holds the position n exactly when group n shares no path with a group
\* at an earlier position of A
AcceptedSet(groups, A) ==
    \A n \in 1..Len(groups) :
        n \in A <=> \A m \in A : m < n => GroupPaths(groups[m]) \cap GroupPaths(groups[n]) = {}

(***************************************************************************)
(* C22: the merge step walks the groups in the order exact, image, video   *)
(* and accepts a group if and only if none of its paths is in a group      *)
(* accepted before it.  A rejected group is dropped whole, an accepted one *)
(* is output with its members as they were: the output is the subsequence  *)
(* of the input at the accepted positions.                                 *)
(***************************************************************************)
C22_MergeKeepsOrDropsWhole ==
    (Returned /\ files # <<>>) =>
        /\ duplicate_groups = ExactGroups \o ImageGroups \o VideoGroups
        /\ \E A \in SUBSET (1..Len(duplicate_groups)) :
              /\ AcceptedSet(duplicate_groups, A)
              /\ result = Pick(duplicate_groups, A)

\* a group was rejected and a group was accepted
C22_Witness ==
    /\ Returned
    /\ result # <<>>
    /\ Len(result) < Len(duplicate_groups)

\* the entries of a stage map for the first n files, in discovery order
RECURSIVE ByDiscoveryFrom(_, _)
ByDiscoveryFrom(d, n) ==
    IF n = 0 THEN <<>>
    ELSE IF files[n] \in Keys(d) /\ files[n] \notin Keys(ByDiscoveryFrom(d, n - 1))
         THEN Append(ByDiscoveryFrom(d, n - 1),
                     [key |-> files[n], value |-> DictGet(d, files[n])])
         ELSE ByDiscoveryFrom(d, n - 1)

ByDiscovery(d) == ByDiscoveryFrom(d, Len(files))

(***************************************************************************)
(* C23: the image pass and the video pass return the groups of the greedy  *)
(* clustering over the analysed files of the stage taken in discovery      *)
(* order: an unclaimed file opens a group as its seed, every unclaimed     *)
(* file that meets the threshold with the seed joins it, and a seed that   *)
(* attracts no file yields no group.                                       *)
(***************************************************************************)
C23_GreedyInDiscoveryOrder ==
    /\ StagePassed("image") =>
          ImageGroups = find_similar_images(ByDiscovery(perceptual_hashes),
                                            options.similarity_threshold)
    /\ StagePassed("video") =>
          VideoGroups = find_similar_videos(ByDiscovery(video_signatures),
                                            options.similarity_threshold)

\* number of the 64 bit positions at which two hash values differ
BitsApart(h1, h2) == Cardinality({b \in 1..64 : (b \in h1) # (b \in h2)})

\* sum of the four per-type distances of the two compared fingerprints
DistanceSum ==
    BitsApart(comparison.x.ahash, comparison.y.ahash)
    + BitsApart(comparison.x.dhash, comparison.y.dhash)
    + BitsApart(comparison.x.phash, comparison.y.phash)
    + BitsApart(comparison.x.whash, comparison.y.whash)

(***************************************************************************)
(* C24: image compare(h1, h2, t) is true if and only if                    *)
(* (1 - D/64) * 100 >= t with D the mean of the four Hamming distances,    *)
(* that is (256 - sum of the four distances) * 100 >= 256 * t; the         *)
(* recorded resolutions play no part in the result.                        *)
(***************************************************************************)
C24_ImageCompareFormula ==
    Compared("image") =>
        /\ comparison.similar <=> (256 - DistanceSum) * 100 >= 256 * comparison.threshold
        /\ \A r1 \in {"640x480", "320x240"}, r2 \in {"640x480", "320x240"} :
              comparison.similar =
                 image_compare([comparison.x EXCEPT !.resolution = r1],
                               [comparison.y EXCEPT !.resolution = r2],
                               comparison.threshold)

\* fingerprints of different resolutions that differ in two of the four
\* hashes were found similar at 90
C24_Witness ==
    /\ Compared("image")
    /\ comparison.similar
    /\ comparison.threshold = 90
    /\ comparison.x.resolution # comparison.y.resolution
    /\ comparison.x.ahash # comparison.y.ahash
    /\ comparison.x.dhash = comparison.y.dhash

(***************************************************************************)
(* C25: video analysis returns a signature only if at least 2 sampled      *)
(* frames were decoded, and the frame-hash sequence of the signature holds *)
(* exactly one hash per decoded sample, in increasing order of the sample  *)
(* positions.                                                              *)
(***************************************************************************)
C25_SignatureOfDecodedSamples ==
    (analysis.at = "done" /\ analysis.outcome # None) =>
        /\ Len(analysis.decoded) >= 2
        /\ \A i \in 1..Len(analysis.decoded), j \in 1..Len(analysis.decoded) :
              i < j => analysis.decoded[i] < analysis.decoded[j]
        /\ Len(analysis.outcome.frame_hashes) = Len(analysis.decoded)
        /\ \A i \in 1..Len(analysis.decoded) :
              analysis.outcome.frame_hashes[i] =
                 HashString("md5", <<frame_index(analysis.frame_count, analysis.decoded[i])>>)

\* a signature of two frames, the first sample having failed
C25_Witness ==
    /\ analysis.at = "done"
    /\ analysis.outcome # None
    /\ Len(analysis.decoded) = 2
    /\ analysis.decoded[1] > 1
    /\ analysis.reads > 2

(***************************************************************************)
(* C26: a decode failure at one sampled index skips only that index and    *)
(* never aborts the file: every analysis that began to sample has tried    *)
(* all its sampled indices when it returns, wherever the failures fall.    *)
(***************************************************************************)
C26_FailureSkipsOneIndex ==
    (analysis.at = "done" /\ analysis.reads > 0) =>
        analysis.reads = sample_count(analysis.frame_count)

\* the entry of key k in the map of stage s was recorded by the call of
\* find_duplicates that is under way
RecordedByThisCall(s, k) ==
    \E i \in Positions : files[i] = k /\ task[s][i] = "yielded"

(***************************************************************************)
(* C27: all per-scan state is discarded at scan end: a later call of       *)
(* find_duplicates on the same scanner finds no entry of an earlier call   *)
(* in the hash, perceptual-hash and video-signature maps, so every entry a *)
(* pass builds its groups from was recorded by the call under way.         *)
(***************************************************************************)
C27_NoEntryOutlivesItsScan ==
    \A s \in Stages :
        pc = At(s, "exit") => \A k \in Keys(StageMap(s)) : RecordedByThisCall(s, k)

(***************************************************************************)
(* C28: within a stage every file path is handed to exactly one worker     *)
(* task, so its entry in the map of the stage is written at most once,     *)
(* whatever sequence of scan_directory calls built the file list (the same *)
(* root given twice included): no two tasks of a stage hold the same path. *)
(***************************************************************************)
C28_OneTaskPerPath ==
    \A s \in Stages : \A i \in Positions : \A j \in Positions :
        (i # j /\ task[s][i] # "none" /\ task[s][j] # "none") => files[i] # files[j]

(***************************************************************************)
(* C29: no per-file failure escapes find_duplicates: a file that becomes   *)
(* unreadable or disappears at any moment of the scan, also after its      *)
(* result was recorded and before the groups are built, is at most left    *)
(* out of the groups; find_duplicates never raises.                        *)
(***************************************************************************)
C29_NoFailureEscapes ==
    /\ ~Raise
    /\ Returned => \A p \in Grouped(result) : p \in Range(files)

\* fs is an initial part of gs
IsPrefix(fs, gs) == Len(fs) <= Len(gs) /\ SubSeq(gs, 1, Len(fs)) = fs

(***************************************************************************)
(* C30: when the stop signal is set during directory discovery,            *)
(* scan_directory returns normally: the files collected before the signal  *)
(* stay in the file list, no file is added once the walk has seen the      *)
(* signal, and no error is raised because of the cancellation.             *)
(***************************************************************************)
C30_StoppedWalkReturns ==
    /\ [](thread.error # <<>> => SomeFolderMissing)
    /\ [][/\ IsPrefix(files, files')
          /\ stop_flag => files' = files
          /\ (stop_flag /\ thread.at = "walk" /\ thread'.at # "walk") =>
                thread'.at = "loop"]_vars

\* the walk of photos was stopped after its first file and has returned
C30_Witness ==
    /\ thread.at = "loop"
    /\ thread.folder = 2
    /\ thread.folders[1] = "photos"
    /\ stop_flag
    /\ files = <<"a.jpg">>
    /\ thread.error = <<>>

\* every selected path that was on the disk has an entry in the archive
ArchiveComplete ==
    /\ deletion.closed
    /\ \A i \in 1..Len(deletion.files_to_delete) :
          deletion.files_to_delete[i] \in deletion.disk0 =>
              \E e \in 1..Len(deletion.archive) :
                  deletion.archive[e].source = deletion.files_to_delete[i]

\* C31: delete_duplicates writes the whole backup archive before it removes a
\* file: when it raises (empty selection, archive not created, archive write
\* failed) no file has been removed; whenever a file has been removed, and
\* whenever a backup path has been returned, the archive was closed with an
\* entry for every selected file that was on the disk.
C31_BackupBeforeRemoval ==
    /\ deletion.at = "raised" => deletion.removed = {}
    /\ deletion.removed # {} => ArchiveComplete
    /\ deletion.at \in {"returned", "restored"} => ArchiveComplete

C31_Witness ==
    /\ deletion.at = "returned"
    /\ Cardinality(deletion.removed) >= 2

\* C32: backup then restore is a round trip: after restore_backup of the
\* archive that delete_duplicates returned, every removed file is back in the
\* restore directory under its name with its content.
C32_RestoreBringsBackRemoved ==
    deletion.at = "restored" =>
        \A p \in deletion.removed :
            [name |-> BaseName(p), content |-> Content(p)] \in deletion.restored

\* a stop call of the ScannerThread has been made and has run to its end
StopCallCompleted ==
    /\ thread.at # "idle"
    /\ thread.stop_requested
    /\ ~thread.testing
    /\ ~thread.stopping

\* C33: a ScannerThread.stop() call, made at any moment from the construction
\* of the thread on and interleaved in any way with run(), is not lost: once
\* the call has completed, the scanner's stop flag is set or find_duplicates
\* has not been called in that run (and so is never called).
C33_StopNeverLost ==
    StopCallCompleted => (stop_flag \/ pc = At("none", "idle"))

\* the stop came before the scanner existed and the run ended without a call
C33_Witness ==
    /\ StopCallCompleted
    /\ ~stop_flag
    /\ thread.scanner
    /\ thread.at = "done"

\* the analysis of file i in stage s has completed successfully, the stop
\* flag not being set
FinishedBeforeStop(s, i) ==
    IF i \in Positions THEN ~stop_flag /\ task[s][i] = "ok" ELSE FALSE

\* find_duplicates has not returned, or file i is in the map of stage s
KeptAtReturn(s, i) ==
    IF i \in Positions /\ Returned THEN files[i] \in Keys(StageMap(s)) ELSE TRUE

\* C34: an analysis that had completed successfully while the stop flag was
\* not yet set is in the result map of its stage whenever find_duplicates
\* has returned afterwards.
C34_FinishedWorkKept ==
    \A s \in Stages : \A i \in 1..MaxScheduledFiles :
        [](FinishedBeforeStop(s, i) => []KeptAtReturn(s, i))

\* the map and the groups of the image pass or of the video pass
MapOf(kind) == IF kind = "image" THEN perceptual_hashes ELSE video_signatures

GroupsOf(kind) == IF kind = "image" THEN ImageGroups ELSE VideoGroups

\* the files of the map that the pass left in no group
Ungrouped(kind) == Keys(MapOf(kind)) \ Grouped(GroupsOf(kind))

\* the two files meet the threshold, compared in one order or in the other
Meets(kind, p, q) ==
    \/ Compare(kind, DictGet(MapOf(kind), p), DictGet(MapOf(kind), q),
               options.similarity_threshold)
    \/ Compare(kind, DictGet(MapOf(kind), q), DictGet(MapOf(kind), p),
               options.similarity_threshold)

\* C35: the greedy image and video passes are maximal, in whatever order the
\* map holds its entries: a file of the map that the pass left in no group
\* meets the threshold with the seed (first member) of no group of the pass
\* and with no other file the pass left ungrouped.
C35_GreedyMaximal ==
    \A kind \in {"image", "video"} :
        LET groups == GroupsOf(kind)
            ungrouped == Keys(MapOf(kind)) \ Grouped(groups)
        IN  \A u \in ungrouped :
                /\ \A g \in 1..Len(groups) : ~Meets(kind, groups[g][1].path, u)
                /\ \A w \in ungrouped \ {u} : ~Meets(kind, u, w)

\* the image pass left a file out that meets the threshold with a member,
\* but not with the seed, of a group
C35_Witness ==
    /\ Returned
    /\ \E u \in Ungrouped("image") :
       \E g \in 1..Len(ImageGroups) :
          /\ ~Meets("image", ImageGroups[g][1].path, u)
          /\ \E m \in 2..Len(ImageGroups[g]) : Meets("image", ImageGroups[g][m].path, u)

\* no path occurs twice in a list of groups
Disjoint(groups) ==
    \A x \in Slots(groups) : \A y \in Slots(groups) :
        x # y => groups[x[1]][x[2]].path # groups[y[1]][y[2]].path

ReportsOf(s, k) == {j \in 1..k : reports[j].stage = s}

\* C37: over one find_duplicates run the percents passed to the progress
\* callback never decrease, across all stages; the k-th report of a stage
\* carries the processed count k; and while a stage runs there is exactly one
\* report for each future taken from as_completed, failed analyses included.
C37_ReportsInStep ==
    /\ \A k \in 1..(Len(reports) - 1) : reports[k].percent <= reports[k + 1].percent
    /\ \A k \in 1..Len(reports) :
          reports[k].processed = Cardinality(ReportsOf(reports[k].stage, k))
    /\ pc.at \in {"loop", "exit"} =>
          {reports[j].file : j \in ReportsOf(pc.stage, Len(reports))}
              = {files[j] : j \in {j \in Positions : task[pc.stage][j] = "yielded"}}

\* two stages reported, and one report is for a file whose analysis failed
C37_Witness ==
    /\ Returned
    /\ Len(reports) >= 3
    /\ reports[1].stage = "exact"
    /\ \E k \in 1..Len(reports) :
          /\ reports[k].stage = "image"
          /\ reports[k].file \notin Keys(perceptual_hashes)

\* C38: for every threshold above 80, two signatures whose durations are both
\* positive and differ by more than 5% of the larger are not judged similar,
\* however many frame hashes agree; at the default threshold the video pass
\* puts two such videos in no group.
C38_DistantDurationsNeverSimilar ==
    (Compared("video") /\ DurationsApart) =>
        /\ comparison.threshold > 80 => ~comparison.similar
        /\ comparison.threshold = DEFAULT_THRESHOLD =>
              find_similar_videos(PairOfSignatures, comparison.threshold) = <<>>

\* signatures that agree at every sampled frame, of 30 s and 19 s, were
\* compared at the default threshold and found not similar
C38_Witness ==
    /\ Compared("video")
    /\ comparison.threshold = DEFAULT_THRESHOLD
    /\ comparison.x.duration = 30
    /\ comparison.y.duration = 19
    /\ ShorterLength > 0
    /\ Cardinality(EqualPositions) = ShorterLength
    /\ ~comparison.similar

====
